---- MODULE Spec2Model ----
(***************************************************************************)
(* A model of splash: the plugin registry (src/src/registry.rs), used by   *)
(* one caller (Spec) and by several concurrent callers (SpecConc), and the *)
(* file tailer of src/src/main.rs (SpecTail).                              *)
(***************************************************************************)
EXTENDS Integers, Sequences, FiniteSets, TLC

(***************************************************************************)
(* Bounds of the model.                                                    *)
(***************************************************************************)
\* How many distinct plugin names the callers use.
NumNames == 2
\* How many plugin instances exist per name (they differ in id and version).
NumInstances == 2

NameList == <<"apache", "nginx", "syslog", "json">>
Names == {NameList[i] : i \in 1..NumNames}

\* PluginVersion values (major, minor, patch) carried by the instances.
VersionList == << <<1, 2, 3>>, <<1, 3, 0>>, <<2, 0, 0>>, <<1, 2, 4>> >>

\* PluginVersion::new
PluginVersion(major, minor, patch) ==
    [major |-> major, minor |-> minor, patch |-> patch]

\* The Arc<dyn Plugin> values a caller may hand to register: metadata().name,
\* metadata().version, and the identity of the allocation (id).
PluginPool ==
    {[name |-> n, id |-> i,
      version |-> PluginVersion(VersionList[i][1], VersionList[i][2], VersionList[i][3])] :
        n \in Names, i \in 1..NumInstances}

VARIABLES
    plugins,        \* PluginRegistry.plugins: the HashMap, a function name -> instance
    disabled,       \* PluginRegistry.disabled: the Vec<String>, a sequence of names
    poisoned,       \* which of the two RwLocks are poisoned: a subset of {"plugins", "disabled"}
    op,             \* the last operation the single caller invoked, with its argument
    ret,            \* what that operation returned
    prePlugins,     \* plugins as it was when that operation was invoked
    preDisabled,    \* disabled as it was when that operation was invoked
    everRegistered, \* history: every name a register call has inserted so far
    lastRegistered  \* history: per name registered since, the instance that its last
                    \* successful register stored (forgotten by a successful unregister)

regVars == <<plugins, disabled, poisoned, op, ret, prePlugins, preDisabled, everRegistered,
            lastRegistered>>

(***************************************************************************)
(* RegistryError and the values the operations return.                     *)
(***************************************************************************)
Ok == [tag |-> "Ok"]
PluginNotFound(name) == [tag |-> "Err", err |-> "PluginNotFound", name |-> name]
PluginAlreadyRegistered(name) ==
    [tag |-> "Err", err |-> "PluginAlreadyRegistered", name |-> name]
IncompatibleVersion(plugin, required) ==
    [tag |-> "Err", err |-> "IncompatibleVersion", plugin |-> plugin, required |-> required]
RegistryLocked == [tag |-> "Err", err |-> "RegistryLocked"]
\* A panic unwinding out of the call (the caller gets no return value).
Panicked == [tag |-> "Panic"]

\* Vec::contains
InSeq(s, x) == \E i \in 1..Len(s) : s[i] = x

\* Vec::retain(|n| n != name): the elements other than name, in order
RECURSIVE Retain(_, _)
Retain(s, name) ==
    IF s = <<>> THEN <<>>
    ELSE IF Head(s) = name THEN Retain(Tail(s), name)
    ELSE <<Head(s)>> \o Retain(Tail(s), name)

\* HashMap::insert of a key that is absent
MapInsert(m, name, p) ==
    [k \in DOMAIN m \cup {name} |-> IF k = name THEN p ELSE m[k]]

\* HashMap::remove of a key that is present
MapRemove(m, name) == [k \in DOMAIN m \ {name} |-> m[k]]

\* The orders in which HashMap::keys may yield the keys: every sequence that
\* holds each key once.
KeyOrders(m) ==
    {s \in [1..Cardinality(DOMAIN m) -> DOMAIN m] :
        \A k \in DOMAIN m : \E i \in 1..Cardinality(DOMAIN m) : s[i] = k}

\* A filter that lets every name through.
FilterNothing(all, d) == all

\* Iterator::filter(|name| !disabled.contains(name)).collect()
RECURSIVE FilterEnabled(_, _)
FilterEnabled(all, d) ==
    IF all = <<>> THEN <<>>
    ELSE IF InSeq(d, Head(all)) THEN FilterEnabled(Tail(all), d)
    ELSE <<Head(all)>> \o FilterEnabled(Tail(all), d)

(***************************************************************************)
(* PluginVersion (src/src/plugin.rs). A string is a sequence of characters. *)
(***************************************************************************)
\* A compatibility that compares minor and patch each on its own.
is_compatible_loose(self, other) ==
    self.major = other.major /\ self.minor >= other.minor /\ self.patch >= other.patch

\* A compatibility that looks at the major number only.
is_compatible_same_major(self, other) == self.major = other.major

\* PluginVersion::is_compatible_with, lines 28-39
is_compatible_with(self, other) ==
    IF self.major # other.major THEN FALSE
    ELSE IF self.minor < other.minor THEN FALSE
    ELSE IF self.minor = other.minor /\ self.patch < other.patch THEN FALSE
    ELSE TRUE

DigitChars == <<"0", "1", "2", "3", "4", "5", "6", "7", "8", "9">>

\* Display of a u32 ("{}"): its decimal digits, without leading zeros
RECURSIVE Decimal(_)
Decimal(n) ==
    IF n < 10 THEN <<DigitChars[n + 1]>>
    ELSE Decimal(n \div 10) \o <<DigitChars[(n % 10) + 1]>>

\* A rendering that leaves the patch number out.
to_string_short(v) == Decimal(v.major) \o <<".">> \o Decimal(v.minor)

\* Display for PluginVersion, line 44: "{}.{}.{}"
to_string(v) ==
    Decimal(v.major) \o <<".">> \o Decimal(v.minor) \o <<".">> \o Decimal(v.patch)

(***************************************************************************)
(* The bodies of the operations, as they run once the lock is held. Each   *)
(* returns the new value of the guarded collection and the result.         *)
(***************************************************************************)
\* A register that inserts without looking for the name first.
register_overwrite(m, p) ==
    [plugins |-> MapInsert(m, p.name, p), ret |-> Ok]

\* register, lines 64-71: under the plugins write lock
register_locked(m, p) ==
    IF p.name \in DOMAIN m
    THEN [plugins |-> m, ret |-> PluginAlreadyRegistered(p.name)]
    ELSE [plugins |-> MapInsert(m, p.name, p), ret |-> Ok]

\* An unregister that empties the mapping.
unregister_all(m, name) ==
    IF name \in DOMAIN m
    THEN [plugins |-> <<>>, ret |-> Ok]
    ELSE [plugins |-> m, ret |-> PluginNotFound(name)]

\* unregister, lines 81-85: under the plugins write lock
unregister_locked(m, name) ==
    IF name \in DOMAIN m
    THEN [plugins |-> MapRemove(m, name), ret |-> Ok]
    ELSE [plugins |-> m, ret |-> PluginNotFound(name)]

\* A get that returns the first instance that was ever made for the name.
get_first_instance(m, name) ==
    IF name \in DOMAIN m
    THEN [tag |-> "Plugin",
          plugin |-> CHOOSE p \in PluginPool : p.name = name /\ p.id = 1]
    ELSE PluginNotFound(name)

\* get, lines 95-98: under the plugins read lock
get_locked(m, name) ==
    IF name \in DOMAIN m
    THEN [tag |-> "Plugin", plugin |-> m[name]]
    ELSE PluginNotFound(name)

\* count: a poisoned lock yields 0 (unwrap_or(0))
count(m, pois) ==
    IF "plugins" \in pois THEN 0 ELSE Cardinality(DOMAIN m)

\* contains: a poisoned lock yields false (unwrap_or(false))
contains(m, pois, name) ==
    IF "plugins" \in pois THEN FALSE ELSE name \in DOMAIN m

\* An is_disabled that answers for registered names only.
is_disabled_while_registered(d, pois, name) ==
    IF "disabled" \in pois THEN FALSE ELSE InSeq(d, name) /\ name \in DOMAIN plugins

\* is_disabled: a poisoned lock yields false (unwrap_or(false))
is_disabled(d, pois, name) ==
    IF "disabled" \in pois THEN FALSE ELSE InSeq(d, name)

\* A disable_plugin that pushes the name without having looked it up.
disable_unchecked(d, pois, exists, name) ==
    IF "disabled" \in pois THEN [disabled |-> d, ret |-> RegistryLocked]
    ELSE [disabled |-> IF InSeq(d, name) THEN d ELSE Append(d, name), ret |-> Ok]

\* A disable_plugin that forgets the names that were disabled before.
disable_replacing(d, pois, exists, name) ==
    IF ~exists THEN [disabled |-> d, ret |-> PluginNotFound(name)]
    ELSE IF "disabled" \in pois THEN [disabled |-> d, ret |-> RegistryLocked]
    ELSE [disabled |-> <<name>>, ret |-> Ok]

\* disable_plugin, lines 127-140, given the answer of contains(name)
disable_checked(d, pois, exists, name) ==
    IF ~exists THEN [disabled |-> d, ret |-> PluginNotFound(name)]
    ELSE IF "disabled" \in pois THEN [disabled |-> d, ret |-> RegistryLocked]
    ELSE [disabled |-> IF InSeq(d, name) THEN d ELSE Append(d, name), ret |-> Ok]

\* An enable_plugin that enables every name.
enable_clears(d, name) == [disabled |-> <<>>, ret |-> Ok]

\* enable_plugin, lines 150-151: under the disabled write lock
enable_locked(d, name) == [disabled |-> Retain(d, name), ret |-> Ok]

\* verify_version, lines 182-192: get(name)?, then the plugin's version against
\* the required one
verify_version(m, pois, name, required) ==
    LET got == IF "plugins" \in pois THEN RegistryLocked ELSE get_locked(m, name) IN
    IF got.tag # "Plugin" THEN got
    ELSE IF ~is_compatible_with(got.plugin.version, required)
         THEN IncompatibleVersion(name, to_string(required))
         ELSE Ok

\* The versions a caller may require.
RequiredVersions ==
    {PluginVersion(1, 2, 4), PluginVersion(2, 0, 0), PluginVersion(1, 10, 0)}

(***************************************************************************)
(* The registry used by a single caller: every call runs to completion.    *)
(***************************************************************************)
\* PluginRegistry::new
NewRegistry ==
    /\ plugins = <<>>
    /\ disabled = <<>>
    /\ poisoned = {}
    /\ op = [name |-> "new"]
    /\ ret = Ok
    /\ prePlugins = <<>>
    /\ preDisabled = <<>>
    /\ everRegistered = {}
    /\ lastRegistered = <<>>

\* What every call records: the call and the state it started from.
Invoke(name, arg) ==
    /\ op' = [name |-> name, arg |-> arg]
    /\ prePlugins' = plugins
    /\ preDisabled' = disabled

Register(p) ==
    /\ Invoke("register", p)
    /\ IF "plugins" \in poisoned
       THEN /\ ret' = RegistryLocked
            /\ UNCHANGED <<plugins, everRegistered, lastRegistered>>
       ELSE LET r == register_locked(plugins, p) IN
            /\ plugins' = r.plugins
            /\ ret' = r.ret
            /\ everRegistered' =
                  IF r.ret = Ok THEN everRegistered \cup {p.name} ELSE everRegistered
            /\ lastRegistered' =
                  IF r.ret = Ok
                  THEN [k \in DOMAIN lastRegistered \cup {p.name} |->
                            IF k = p.name THEN p ELSE lastRegistered[k]]
                  ELSE lastRegistered
    /\ UNCHANGED <<disabled, poisoned>>

\* register of a plugin whose name() panics: the panic unwinds while the
\* plugins write guard is held (line 64), which poisons that lock.
RegisterPanics ==
    /\ "plugins" \notin poisoned
    /\ Invoke("register_panics", "-")
    /\ ret' = Panicked
    /\ poisoned' = poisoned \cup {"plugins"}
    /\ UNCHANGED <<plugins, disabled, everRegistered, lastRegistered>>

Unregister(name) ==
    /\ Invoke("unregister", name)
    /\ IF "plugins" \in poisoned
       THEN ret' = RegistryLocked /\ UNCHANGED <<plugins, lastRegistered>>
       ELSE LET r == unregister_locked(plugins, name) IN
            /\ plugins' = r.plugins
            /\ ret' = r.ret
            /\ lastRegistered' =
                  IF r.ret = Ok
                  THEN [k \in DOMAIN lastRegistered \ {name} |-> lastRegistered[k]]
                  ELSE lastRegistered
    /\ UNCHANGED <<disabled, poisoned, everRegistered>>

Get(name) ==
    /\ Invoke("get", name)
    /\ ret' = IF "plugins" \in poisoned THEN RegistryLocked
              ELSE get_locked(plugins, name)
    /\ UNCHANGED <<plugins, disabled, poisoned, everRegistered, lastRegistered>>

ListPlugins ==
    /\ Invoke("list_plugins", "-")
    /\ IF "plugins" \in poisoned
       THEN ret' = RegistryLocked
       ELSE \E all \in KeyOrders(plugins) : ret' = [tag |-> "Names", names |-> all]
    /\ UNCHANGED <<plugins, disabled, poisoned, everRegistered, lastRegistered>>

Count ==
    /\ Invoke("count", "-")
    /\ ret' = [tag |-> "Count", n |-> count(plugins, poisoned)]
    /\ UNCHANGED <<plugins, disabled, poisoned, everRegistered, lastRegistered>>

Contains(name) ==
    /\ Invoke("contains", name)
    /\ ret' = [tag |-> "Bool", b |-> contains(plugins, poisoned, name)]
    /\ UNCHANGED <<plugins, disabled, poisoned, everRegistered, lastRegistered>>

DisablePlugin(name) ==
    /\ Invoke("disable_plugin", name)
    /\ LET r == disable_checked(disabled, poisoned,
                                contains(plugins, poisoned, name), name) IN
       disabled' = r.disabled /\ ret' = r.ret
    /\ UNCHANGED <<plugins, poisoned, everRegistered, lastRegistered>>

EnablePlugin(name) ==
    /\ Invoke("enable_plugin", name)
    /\ IF "disabled" \in poisoned
       THEN ret' = RegistryLocked /\ UNCHANGED disabled
       ELSE LET r == enable_locked(disabled, name) IN
            disabled' = r.disabled /\ ret' = r.ret
    /\ UNCHANGED <<plugins, poisoned, everRegistered, lastRegistered>>

IsDisabled(name) ==
    /\ Invoke("is_disabled", name)
    /\ ret' = [tag |-> "Bool", b |-> is_disabled(disabled, poisoned, name)]
    /\ UNCHANGED <<plugins, disabled, poisoned, everRegistered, lastRegistered>>

ListEnabledPlugins ==
    /\ Invoke("list_enabled_plugins", "-")
    /\ IF "plugins" \in poisoned \/ "disabled" \in poisoned
       THEN ret' = RegistryLocked
       ELSE \E all \in KeyOrders(plugins) :
               ret' = [tag |-> "Names", names |-> FilterEnabled(all, disabled)]
    /\ UNCHANGED <<plugins, disabled, poisoned, everRegistered, lastRegistered>>

VerifyVersion(name, required) ==
    /\ Invoke("verify_version", [name |-> name, required |-> required])
    /\ ret' = verify_version(plugins, poisoned, name, required)
    /\ UNCHANGED <<plugins, disabled, poisoned, everRegistered, lastRegistered>>

(***************************************************************************)
(* The registry used by several threads at once. A call is a sequence of   *)
(* steps: taking an RwLock is one step, and the code that runs under the   *)
(* guard, with the guard's release at the end of its scope, is the next.   *)
(***************************************************************************)
\* How many threads call the registry concurrently.
NumThreads == 2
Threads == 1..NumThreads

VARIABLES
    tpc,         \* per thread: where it is in its call ("idle" between calls)
    tcall,       \* per thread: the call it is in, or the last one it made
    tlocal,      \* per thread: its local variable (all_plugins in list_enabled_plugins)
    tret,        \* per thread: what its last completed call returned
    pluginsLock, \* the RwLock of plugins: its readers and its writer (0: none)
    disabledLock,\* the RwLock of disabled: its readers and its writer (0: none)
    tseen        \* history, per thread in list_enabled_plugins: the enabled sets of
                 \* the registry states that existed since the call was invoked

concVars == <<tpc, tcall, tlocal, tret, pluginsLock, disabledLock, tseen>>

NoCall == [name |-> "none"]
NoValue == [tag |-> "None"]
Unlocked == [readers |-> {}, writer |-> 0]

\* RwLock::read: granted while no writer holds the lock
CanRead(lock) == lock.writer = 0
ReadLocked(lock, t) == [lock EXCEPT !.readers = @ \cup {t}]
\* A read guard that is never dropped.
ReadLeaked(lock, t) == lock
ReadUnlocked(lock, t) == [lock EXCEPT !.readers = @ \ {t}]
\* RwLock::write: granted while nobody holds the lock
CanWrite(lock) == lock.writer = 0 /\ lock.readers = {}
WriteLocked(lock, t) == [lock EXCEPT !.writer = t]

Range(s) == {s[i] : i \in 1..Len(s)}

\* registered names minus disabled names, of one registry state
EnabledNames(m, d) == {n \in DOMAIN m : ~InSeq(d, n)}

\* The calls a thread may make.
Calls ==
    {[name |-> "register", arg |-> p] : p \in PluginPool}
    \cup {[name |-> c, arg |-> n] : c \in {"unregister", "disable_plugin", "enable_plugin"},
                                    n \in Names}
    \cup {[name |-> "list_enabled_plugins", arg |-> "-"]}

\* The first step of each call.
FirstStep(c) ==
    CASE c.name = "register" -> "register_write"
      [] c.name = "unregister" -> "unregister_write"
      [] c.name = "disable_plugin" -> "contains_read"
      [] c.name = "enable_plugin" -> "enable_write"
      [] c.name = "list_enabled_plugins" -> "list_plugins_read"

\* The history of the callers that are inside list_enabled_plugins, after a
\* step that leaves the registry as (m, d).
Observed(m, d) ==
    [u \in Threads |->
        IF tpc[u] # "idle" /\ tcall[u].name = "list_enabled_plugins"
        THEN tseen[u] \cup {EnabledNames(m, d)}
        ELSE tseen[u]]

InitThreads ==
    /\ tpc = [t \in Threads |-> "idle"]
    /\ tcall = [t \in Threads |-> NoCall]
    /\ tlocal = [t \in Threads |-> NoValue]
    /\ tret = [t \in Threads |-> NoValue]
    /\ pluginsLock = Unlocked
    /\ disabledLock = Unlocked
    /\ tseen = [t \in Threads |-> {}]

\* A thread invokes a call.
Call(t, c) ==
    /\ tpc[t] = "idle"
    /\ tpc' = [tpc EXCEPT ![t] = FirstStep(c)]
    /\ tcall' = [tcall EXCEPT ![t] = c]
    /\ tret' = [tret EXCEPT ![t] = NoValue]
    /\ tseen' = [tseen EXCEPT ![t] =
                    IF c.name = "list_enabled_plugins"
                    THEN {EnabledNames(plugins, disabled)} ELSE {}]
    /\ UNCHANGED <<tlocal, pluginsLock, disabledLock, plugins, disabled>>

\* A call returns r.
Return(t, r) ==
    /\ tpc' = [tpc EXCEPT ![t] = "idle"]
    /\ tret' = [tret EXCEPT ![t] = r]

\* self.plugins.write() of register and unregister
PluginsWrite(t) ==
    /\ tpc[t] \in {"register_write", "unregister_write"}
    /\ CanWrite(pluginsLock)
    /\ pluginsLock' = WriteLocked(pluginsLock, t)
    /\ tpc' = [tpc EXCEPT ![t] =
                  IF tpc[t] = "register_write" THEN "register_body" ELSE "unregister_body"]
    /\ UNCHANGED <<tcall, tlocal, tret, disabledLock, tseen, plugins, disabled>>

\* register under the write guard, and the guard's drop
RegisterBody(t) ==
    /\ tpc[t] = "register_body"
    /\ LET r == register_locked(plugins, tcall[t].arg) IN
       /\ plugins' = r.plugins
       /\ Return(t, r.ret)
       /\ tseen' = Observed(r.plugins, disabled)
    /\ pluginsLock' = Unlocked
    /\ UNCHANGED <<tcall, tlocal, disabledLock, disabled>>

\* unregister under the write guard, and the guard's drop
UnregisterBody(t) ==
    /\ tpc[t] = "unregister_body"
    /\ LET r == unregister_locked(plugins, tcall[t].arg) IN
       /\ plugins' = r.plugins
       /\ Return(t, r.ret)
       /\ tseen' = Observed(r.plugins, disabled)
    /\ pluginsLock' = Unlocked
    /\ UNCHANGED <<tcall, tlocal, disabledLock, disabled>>

\* self.plugins.read() of contains (called by disable_plugin) and of list_plugins
\* (called by list_enabled_plugins)
PluginsRead(t) ==
    /\ tpc[t] \in {"contains_read", "list_plugins_read"}
    /\ CanRead(pluginsLock)
    /\ pluginsLock' = ReadLocked(pluginsLock, t)
    /\ tpc' = [tpc EXCEPT ![t] =
                  IF tpc[t] = "contains_read" THEN "contains_body" ELSE "list_plugins_body"]
    /\ UNCHANGED <<tcall, tlocal, tret, disabledLock, tseen, plugins, disabled>>

\* disable_plugin, lines 127-129: contains(name) under the read guard, which is
\* dropped when contains returns; an unknown name returns PluginNotFound
ContainsBody(t) ==
    /\ tpc[t] = "contains_body"
    /\ pluginsLock' = ReadUnlocked(pluginsLock, t)
    /\ IF contains(plugins, poisoned, tcall[t].arg)
       THEN /\ tpc' = [tpc EXCEPT ![t] = "disable_write"]
            /\ UNCHANGED tret
       ELSE Return(t, PluginNotFound(tcall[t].arg))
    /\ UNCHANGED <<tcall, tlocal, disabledLock, tseen, plugins, disabled>>

\* self.disabled.write() of disable_plugin and enable_plugin
DisabledWrite(t) ==
    /\ tpc[t] \in {"disable_write", "enable_write"}
    /\ CanWrite(disabledLock)
    /\ disabledLock' = WriteLocked(disabledLock, t)
    /\ tpc' = [tpc EXCEPT ![t] =
                  IF tpc[t] = "disable_write" THEN "disable_body" ELSE "enable_body"]
    /\ UNCHANGED <<tcall, tlocal, tret, pluginsLock, tseen, plugins, disabled>>

\* disable_plugin, lines 136-140: the push under the write guard, and its drop
DisableBody(t) ==
    /\ tpc[t] = "disable_body"
    /\ LET r == disable_checked(disabled, poisoned, TRUE, tcall[t].arg) IN
       /\ disabled' = r.disabled
       /\ Return(t, r.ret)
       /\ tseen' = Observed(plugins, r.disabled)
    /\ disabledLock' = Unlocked
    /\ UNCHANGED <<tcall, tlocal, pluginsLock, plugins>>

\* enable_plugin under the write guard, and its drop
EnableBody(t) ==
    /\ tpc[t] = "enable_body"
    /\ LET r == enable_locked(disabled, tcall[t].arg) IN
       /\ disabled' = r.disabled
       /\ Return(t, r.ret)
       /\ tseen' = Observed(plugins, r.disabled)
    /\ disabledLock' = Unlocked
    /\ UNCHANGED <<tcall, tlocal, pluginsLock, plugins>>

\* list_plugins, line 108, called at line 164: the keys are copied into
\* all_plugins under the read guard, which is dropped when list_plugins returns
ListPluginsBody(t) ==
    /\ tpc[t] = "list_plugins_body"
    /\ \E all \in KeyOrders(plugins) :
          tlocal' = [tlocal EXCEPT ![t] = [tag |-> "Names", names |-> all]]
    /\ pluginsLock' = ReadUnlocked(pluginsLock, t)
    /\ tpc' = [tpc EXCEPT ![t] = "list_disabled_read"]
    /\ UNCHANGED <<tcall, tret, disabledLock, tseen, plugins, disabled>>

\* self.disabled.read() of list_enabled_plugins
DisabledRead(t) ==
    /\ tpc[t] = "list_disabled_read"
    /\ CanRead(disabledLock)
    /\ disabledLock' = ReadLocked(disabledLock, t)
    /\ tpc' = [tpc EXCEPT ![t] = "list_enabled_body"]
    /\ UNCHANGED <<tcall, tlocal, tret, pluginsLock, tseen, plugins, disabled>>

\* list_enabled_plugins, lines 170-173: all_plugins filtered by the disabled
\* list under its read guard, and the guard's drop
ListEnabledBody(t) ==
    /\ tpc[t] = "list_enabled_body"
    /\ Return(t, [tag |-> "Names", names |-> FilterEnabled(tlocal[t].names, disabled)])
    /\ tlocal' = [tlocal EXCEPT ![t] = NoValue]
    /\ disabledLock' = ReadUnlocked(disabledLock, t)
    /\ UNCHANGED <<tcall, pluginsLock, tseen, plugins, disabled>>

(***************************************************************************)
(* The tailer: watch() of src/src/main.rs, and the file, the writers of    *)
(* the file and the watch subsystem around it. The watch is registered     *)
(* before the model starts (lines 83-91); a change of the file puts one    *)
(* notification on the channel.                                            *)
(***************************************************************************)
\* The longest file the tailer may be started on.
MaxInitLen == 2
\* How many appends the writers make.
MaxWrites == 2
\* How many faults happen around the tailer in one run: a truncation or the
\* removal of the file, an error notification, the end of the watch thread.
MaxFaults == 1

\* The bytes the writers append, in order: the k-th append writes the k-th of
\* them, so that every appended byte differs from every other.
NewContent == <<"X", "Y", "Z", "W", "V">>

\* The lines the file holds before the tailer starts.
OldContent == <<"a", "\n", "b", "\n">>

\* The files the tailer may be started on: the first n bytes of OldContent.
InitFiles == {SubSeq(OldContent, 1, n) : n \in 0..MaxInitLen}

VARIABLES
    file,        \* the content of the watched file
    fileExists,  \* whether the path still names the file
    pos,         \* watch's pos: the stored byte offset
    seekPos,     \* the offset of the open handle f after the seek of line 100
    wpc,         \* where watch() is: "start", "recv", "open", "metadata", "read",
                 \* "exited" (process::exit(1)) or "panicked" (an unwrap failed)
    chan,        \* the channel rx: the notifications sent and not yet received
    cur,         \* the item the last rx.recv() returned: "event", "error" or "none"
    watcherAlive,\* whether the sender side of the channel still exists
    batches,     \* history: the calls of print_contents, in order
    startLen,    \* history: the file's length when line 93 read it (-1 before)
    writes,      \* history: how many appends the writers have made
    truncates,   \* history: how many times the file was truncated
    errors,      \* history: how many error notifications were sent
    touches      \* history: how many notifications came without a change of content

tailVars == <<file, fileExists, pos, seekPos, wpc, chan, cur, watcherAlive,
              batches, startLen, writes, truncates, errors, touches>>


\* An initial offset that ignores what was read.
InitialOffsetZero(contents) == 0

\* contents.len() as u64 after the initial read (line 94)
InitialOffset(contents) == Len(contents)

\* f.seek(SeekFrom::Start(pos)): the handle's offset, which may lie past the end
SeekStart(offset) == offset

\* f.read_to_string: the bytes from the handle's offset to the end of the file;
\* nothing when the offset is at or past the end
ReadToEnd(f, offset) ==
    IF offset >= Len(f) THEN <<>> ELSE SubSeq(f, offset + 1, Len(f))

\* How the match of line 97 takes an item that rx.recv() returned as Ok: the
\* pattern Ok(_) takes an event and an error notification alike.
RecvOk(item) == "change"

\* str::lines: the pieces between line feeds, without a last empty piece
RECURSIVE SplitLines(_, _)
SplitLines(s, line) ==
    IF s = <<>> THEN (IF line = <<>> THEN <<>> ELSE <<line>>)
    ELSE IF Head(s) = "\n" THEN <<line>> \o SplitLines(Tail(s), <<>>)
    ELSE SplitLines(Tail(s), Append(line, Head(s)))

Lines(s) == SplitLines(s, <<>>)

\* print_adhoc / print_clf, lines 127-133 and 220-223: the lines of a batch
\* that reach the highlighter or the parser (an empty line is skipped)
DispatchedLines(batch) == SelectSeq(Lines(batch), LAMBDA l : l # <<>>)

\* Every line dispatched so far, over all batches.
RECURSIVE AllDispatched(_)
AllDispatched(bs) ==
    IF bs = <<>> THEN <<>>
    ELSE DispatchedLines(bs[1].bytes) \o AllDispatched(Tail(bs))

\* The bytes of all the batches, one after the other.
RECURSIVE AllBytes(_)
AllBytes(bs) ==
    IF bs = <<>> THEN <<>> ELSE bs[1].bytes \o AllBytes(Tail(bs))

Running == wpc \notin {"exited", "panicked"}

\* The faults that have happened so far.
Faults ==
    truncates + errors + touches + (IF fileExists THEN 0 ELSE 1) + (IF watcherAlive THEN 0 ELSE 1)

InitTail ==
    /\ file \in InitFiles
    /\ fileExists = TRUE
    /\ pos = 0
    /\ seekPos = 0
    /\ wpc = "start"
    /\ chan = <<>>
    /\ cur = "none"
    /\ watcherAlive = TRUE
    /\ batches = <<>>
    /\ startLen = -1
    /\ writes = 0
    /\ truncates = 0
    /\ errors = 0
    /\ touches = 0

\* Lines 93-94: fs::read_to_string(&path).unwrap() and pos = contents.len()
TailStart ==
    /\ wpc = "start"
    /\ IF fileExists
       THEN /\ pos' = InitialOffset(file)
            /\ startLen' = Len(file)
            /\ wpc' = "recv"
       ELSE /\ wpc' = "panicked"
            /\ UNCHANGED <<pos, startLen>>
    /\ UNCHANGED <<file, fileExists, seekPos, chan, cur, watcherAlive, batches,
                   writes, truncates, errors, touches>>

\* Line 97: rx.recv() returns Ok(item), and the arm Ok(_) is taken
Recv ==
    /\ wpc = "recv"
    /\ chan # <<>>
    /\ cur' = Head(chan)
    /\ chan' = Tail(chan)
    /\ wpc' = IF RecvOk(Head(chan)) = "change" THEN "open" ELSE "exited"
    /\ UNCHANGED <<file, fileExists, pos, seekPos, watcherAlive, batches,
                   startLen, writes, truncates, errors, touches>>

\* Lines 109-112: rx.recv() returns Err (the channel is empty and its sender is
\* gone), and the process exits with status 1
RecvDisconnected ==
    /\ wpc = "recv"
    /\ chan = <<>>
    /\ ~watcherAlive
    /\ wpc' = "exited"
    /\ UNCHANGED <<file, fileExists, pos, seekPos, chan, cur, watcherAlive, batches,
                   startLen, writes, truncates, errors, touches>>

\* Lines 99-100: File::open(&path).unwrap() and f.seek(SeekFrom::Start(pos))
OpenSeek ==
    /\ wpc = "open"
    /\ IF fileExists
       THEN seekPos' = SeekStart(pos) /\ wpc' = "metadata"
       ELSE wpc' = "panicked" /\ UNCHANGED seekPos
    /\ UNCHANGED <<file, fileExists, pos, chan, cur, watcherAlive, batches,
                   startLen, writes, truncates, errors, touches>>

\* Line 102: pos = f.metadata().unwrap().len()
Metadata ==
    /\ wpc = "metadata"
    /\ pos' = Len(file)
    /\ wpc' = "read"
    /\ UNCHANGED <<file, fileExists, seekPos, chan, cur, watcherAlive, batches,
                   startLen, writes, truncates, errors, touches>>

\* Lines 104-107: contents.clear(), f.read_to_string(&mut contents) and
\* print_contents(&contents, mode). The batch is recorded with the offset that
\* was stored when the notification arrived and was sought to (from), the end
\* of file the read reached (eof) and the item that caused it.
ReadEmit ==
    /\ wpc = "read"
    /\ batches' = Append(batches, [from |-> seekPos, eof |-> Len(file),
                                   bytes |-> ReadToEnd(file, seekPos), cause |-> cur])
    /\ wpc' = "recv"
    /\ UNCHANGED <<file, fileExists, pos, seekPos, chan, cur, watcherAlive,
                   startLen, writes, truncates, errors, touches>>

\* The watch subsystem reports a change of the file, while it is alive.
Notified(item) == IF watcherAlive THEN Append(chan, item) ELSE chan

\* A writer appends one byte to the file.
AppendByte ==
    /\ Running
    /\ fileExists
    /\ writes < MaxWrites
    /\ file' = Append(file, NewContent[writes + 1])
    /\ writes' = writes + 1
    /\ chan' = Notified("event")
    /\ UNCHANGED <<fileExists, pos, seekPos, wpc, cur, watcherAlive, batches,
                   startLen, truncates, errors, touches>>

\* The file is truncated to its first n bytes.
Truncate(n) ==
    /\ Running
    /\ fileExists
    /\ Faults < MaxFaults
    /\ n < Len(file)
    /\ file' = SubSeq(file, 1, n)
    /\ truncates' = truncates + 1
    /\ chan' = Notified("event")
    /\ UNCHANGED <<fileExists, pos, seekPos, wpc, cur, watcherAlive, batches,
                   startLen, writes, errors, touches>>

\* The file is removed: the path names nothing, an open handle still reads it.
Remove ==
    /\ Running
    /\ fileExists
    /\ Faults < MaxFaults
    /\ fileExists' = FALSE
    /\ chan' = Notified("event")
    /\ UNCHANGED <<file, pos, seekPos, wpc, cur, watcherAlive, batches,
                   startLen, writes, truncates, errors, touches>>

\* The watch subsystem delivers an error notification: rx.recv() will return
\* Ok(Err(e)).
WatchError ==
    /\ Running
    /\ watcherAlive
    /\ Faults < MaxFaults
    /\ errors' = errors + 1
    /\ chan' = Append(chan, "error")
    /\ UNCHANGED <<file, fileExists, pos, seekPos, wpc, cur, watcherAlive, batches,
                   startLen, writes, truncates, touches>>

\* The watch subsystem reports an event of the file that leaves its content as
\* it is (an access, a change of its attributes).
Touch ==
    /\ Running
    /\ fileExists
    /\ watcherAlive
    /\ Faults < MaxFaults
    /\ touches' = touches + 1
    /\ chan' = Append(chan, "event")
    /\ UNCHANGED <<file, fileExists, pos, seekPos, wpc, cur, watcherAlive, batches,
                   startLen, writes, truncates, errors>>

\* The watch subsystem's thread ends and drops the sender.
WatcherDies ==
    /\ Running
    /\ watcherAlive
    /\ Faults < MaxFaults
    /\ watcherAlive' = FALSE
    /\ UNCHANGED <<file, fileExists, pos, seekPos, wpc, chan, cur, batches,
                   startLen, writes, truncates, errors, touches>>

(***************************************************************************)
(* PluginVersion::is_compatible_with applied to a pair of versions.        *)
(***************************************************************************)
\* The largest major, minor or patch number of the versions compared.
MaxVersionNumber == 2

\* Every version whose numbers are at most MaxVersionNumber.
Versions ==
    {PluginVersion(major, minor, patch) :
        major \in 0..MaxVersionNumber, minor \in 0..MaxVersionNumber,
        patch \in 0..MaxVersionNumber}

VARIABLES
    verSelf,   \* the version is_compatible_with is called on
    verOther,  \* the version it is compared with
    verRet     \* what the calls returned: self against other (selfOther), other
               \* against self (otherSelf) and self against itself (selfSelf)

versionVars == <<verSelf, verOther, verRet>>

\* No version has been compared.
IdleVersion ==
    /\ verSelf = PluginVersion(0, 0, 0)
    /\ verOther = PluginVersion(0, 0, 0)
    /\ verRet = NoValue

\* Two versions are given.
InitVersion ==
    /\ verSelf \in Versions
    /\ verOther \in Versions
    /\ verRet = NoValue

\* The calls of is_compatible_with on the two versions.
IsCompatibleWith ==
    /\ verRet = NoValue
    /\ verRet' = [tag |-> "Compat",
                  selfOther |-> is_compatible_with(verSelf, verOther),
                  otherSelf |-> is_compatible_with(verOther, verSelf),
                  selfSelf |-> is_compatible_with(verSelf, verSelf)]
    /\ UNCHANGED <<verSelf, verOther>>

(***************************************************************************)
(* main() of src/src/main.rs and the format dispatch: the mode selector,   *)
(* the lines of standard input when no path is given, and the batches that *)
(* watch() hands to print_contents when one is.                            *)
(***************************************************************************)
\* How many lines standard input holds at most.
MaxInputLines == 3
\* How many batches watch() prints at most.
MaxBatches == 2

Some(v) == [tag |-> "Some", value |-> v]

\* The values of args.mode: no --mode, or --mode with a selector.
ModeArgs == {NoValue, Some("clf"), Some("ad-hoc"), Some("CLF"), Some("json")}

\* What stdin().lines() may yield: a line without its line feed, or an error
\* for a line whose bytes are not valid UTF-8.
InputItems ==
    {[utf8 |-> TRUE, line |-> l] : l \in {<<>>, <<"a">>, <<"b">>}}
    \cup {[utf8 |-> FALSE, line |-> <<"xFF">>]}

\* The inputs: every sequence of at most MaxInputLines items.
Inputs == UNION {[1..n -> InputItems] : n \in 0..MaxInputLines}

\* The batches watch() may read from the file.
Texts == {<<>>, <<"\n">>, <<"a", "\n">>, <<"a", "\n", "\n", "b">>}

VARIABLES
    argMode,     \* args.mode: an Option<String>
    hasPath,     \* whether args.path is Some
    mode,        \* main's mode: the selector in use ("" before line 57)
    mpc,         \* where main() is: "args", "stdin", "watch", "returned",
                 \* "panicked" or "exited" (process::exit(1))
    stdin,       \* the items standard input has yet to yield
    input,       \* history: the items standard input held at the start
    printed,     \* history: the arguments of the calls of print_contents, in order
    parsed,      \* history: the lines handed to the structured parser (print_clf)
    highlighted, \* history: the lines handed to print_highlighted (print_adhoc)
    exitStatus   \* the status the process ended with (-1 while it runs)

mainVars == <<argMode, hasPath, mode, mpc, stdin, input, printed, parsed,
              highlighted, exitStatus>>

\* print_clf, lines 218-223: the lines the expression is applied to
print_clf(contents) == DispatchedLines(contents)

\* print_adhoc, lines 125-133: the lines print_highlighted is called with
print_adhoc(contents) == DispatchedLines(contents)

\* A dispatch that takes the selector in upper case for "clf" as well.
print_contents_any_case(contents, m) ==
    IF m \in {"clf", "CLF"}
    THEN [parsed |-> print_clf(contents), highlighted |-> <<>>]
    ELSE [parsed |-> <<>>, highlighted |-> print_adhoc(contents)]

\* print_contents, lines 117-122: the lines each of the two printers is given
print_contents(contents, m) ==
    IF m = "clf"
    THEN [parsed |-> print_clf(contents), highlighted |-> <<>>]
    ELSE [parsed |-> <<>>, highlighted |-> print_adhoc(contents)]

\* A call of print_contents(contents, mode).
PrintContents(contents) ==
    LET r == print_contents(contents, mode) IN
    /\ printed' = Append(printed, contents)
    /\ parsed' = parsed \o r.parsed
    /\ highlighted' = highlighted \o r.highlighted

\* main has not started and has nothing to read.
IdleMain ==
    /\ argMode = NoValue
    /\ hasPath = FALSE
    /\ mode = ""
    /\ mpc = "args"
    /\ stdin = <<>>
    /\ input = <<>>
    /\ printed = <<>>
    /\ parsed = <<>>
    /\ highlighted = <<>>
    /\ exitStatus = -1

\* The process starts with its arguments and its standard input.
InitMain ==
    /\ argMode \in ModeArgs
    /\ hasPath \in BOOLEAN
    /\ mode = ""
    /\ mpc = "args"
    /\ stdin \in (IF hasPath THEN {<<>>} ELSE Inputs)
    /\ input = stdin
    /\ printed = <<>>
    /\ parsed = <<>>
    /\ highlighted = <<>>
    /\ exitStatus = -1

\* Lines 55-67: the selector is args.mode or "ad-hoc", and the path decides
\* between watch() and standard input
MainArgs ==
    /\ mpc = "args"
    /\ mode' = IF argMode.tag = "Some" THEN argMode.value ELSE "ad-hoc"
    /\ mpc' = IF hasPath THEN "watch" ELSE "stdin"
    /\ UNCHANGED <<argMode, hasPath, stdin, input, printed, parsed, highlighted,
                   exitStatus>>

\* Lines 75-77: the next item of stdin().lines(); line.unwrap() panics on an
\* error, and a line is passed to print_contents
StdinLine ==
    /\ mpc = "stdin"
    /\ stdin # <<>>
    /\ stdin' = Tail(stdin)
    /\ IF Head(stdin).utf8
       THEN /\ PrintContents(Head(stdin).line)
            /\ UNCHANGED <<mpc, exitStatus>>
       ELSE /\ mpc' = "panicked"
            /\ exitStatus' = 101
            /\ UNCHANGED <<printed, parsed, highlighted>>
    /\ UNCHANGED <<argMode, hasPath, mode, input>>

\* Lines 75-80: standard input is exhausted, the loop ends and main returns
StdinClosed ==
    /\ mpc = "stdin"
    /\ stdin = <<>>
    /\ mpc' = "returned"
    /\ exitStatus' = 0
    /\ UNCHANGED <<argMode, hasPath, mode, stdin, input, printed, parsed, highlighted>>

\* Line 107: watch() passes the batch it has read to print_contents
WatchPrints(contents) ==
    /\ mpc = "watch"
    /\ Len(printed) < MaxBatches
    /\ PrintContents(contents)
    /\ UNCHANGED <<argMode, hasPath, mode, mpc, stdin, input, exitStatus>>

\* Lines 69-72 and 109-112: watch() fails, the error is reported and the
\* process exits with status 1
WatchFails ==
    /\ mpc = "watch"
    /\ mpc' = "exited"
    /\ exitStatus' = 1
    /\ UNCHANGED <<argMode, hasPath, mode, stdin, input, printed, parsed, highlighted>>

(***************************************************************************)
(* The default methods of the Plugin trait (src/src/plugin.rs): can_parse  *)
(* and detect_format, applied to the sample lines of a plugin whose        *)
(* parse_line gives each of the three results.                             *)
(***************************************************************************)
\* How many sample lines detect_format is given at most.
MaxSamples == 4

\* ParseResult
Parsed(text) == [tag |-> "Parsed", text |-> text]
NoMatch == [tag |-> "NoMatch"]
ParseError(message) == [tag |-> "Error", message |-> message]

\* The lines the samples are taken from.
SampleLines == {"MOCK: line", "OTHER: line", "MOCK: broken"}

\* parse_line of the plugin: the method every plugin has to supply
parse_line(line) ==
    CASE line = "MOCK: line" -> Parsed(line)
      [] line = "MOCK: broken" -> ParseError("broken")
      [] OTHER -> NoMatch

\* A can_parse that takes every result but NoMatch for a success.
can_parse_unless_no_match(line) == parse_line(line).tag # "NoMatch"

\* Plugin::can_parse, lines 103-105
can_parse(line) == parse_line(line).tag = "Parsed"

\* The bits of an f32's significand, the hidden one included.
F32Precision == 24

\* An f32 that is not negative, as its significand and exponent: the value is
\* mant / 2^exp, with 2^23 <= mant < 2^24 unless the value is 0.0.
F32(mant, exp) == [mant |-> mant, exp |-> exp]
F32Zero == F32(0, 0)

\* The least exp with a * 2^exp >= 2^23 * b, for 0 < a <= b.
RECURSIVE F32Exponent(_, _, _)
F32Exponent(a, b, exp) ==
    IF a * 2^exp >= 2^(F32Precision - 1) * b THEN exp
    ELSE F32Exponent(a, b, exp + 1)

\* matches as f32 / len as f32 (line 119), for 0 <= a <= b and b > 0: the
\* quotient rounded to the nearest f32, ties to the even significand
F32Div(a, b) ==
    IF a = 0 THEN F32Zero
    ELSE LET exp == F32Exponent(a, b, 0)
             quot == (a * 2^exp) \div b
             rest == (a * 2^exp) % b
             mant == IF 2 * rest > b \/ (2 * rest = b /\ quot % 2 = 1)
                     THEN quot + 1 ELSE quot
         IN  IF mant = 2^F32Precision
             THEN F32(2^(F32Precision - 1), exp - 1)
             ELSE F32(mant, exp)

\* .filter(|line| self.can_parse(line)).count(), lines 114-117
RECURSIVE CountParseable(_)
CountParseable(sample) ==
    IF sample = <<>> THEN 0
    ELSE (IF can_parse(Head(sample)) THEN 1 ELSE 0) + CountParseable(Tail(sample))

\* Plugin::detect_format, lines 109-120
detect_format(sample) ==
    IF sample = <<>> THEN F32Zero
    ELSE F32Div(CountParseable(sample), Len(sample))

VARIABLES
    sampleLines, \* the sample_lines detect_format is called with
    confidence   \* what detect_format returned

detectVars == <<sampleLines, confidence>>

\* No format has been detected.
IdleDetect ==
    /\ sampleLines = <<>>
    /\ confidence = NoValue

\* A caller has sample lines.
InitDetect ==
    /\ sampleLines \in UNION {[1..n -> SampleLines] : n \in 0..MaxSamples}
    /\ confidence = NoValue

\* The call of detect_format on the sample lines.
DetectFormat ==
    /\ confidence = NoValue
    /\ confidence' = [tag |-> "Confidence", value |-> detect_format(sampleLines)]
    /\ UNCHANGED sampleLines

(***************************************************************************)
(* Plugin discovery (src/src/discovery.rs) over a file system that stays   *)
(* as it is during a call. A file name is the sequence of its pieces, a    *)
(* dot being a piece of its own: libapache.so is <<"lib","apache",".","so">>.*)
(***************************************************************************)
\* How many entries a directory holds at most.
MaxEntries == 2

\* The directories a PluginDiscovery may be made to search: the one of the
\* user and the two of the system, in the order of add_default_paths.
SearchPaths ==
    <<"/home/u/.splash/plugins", "/usr/local/lib/splash/plugins",
      "/usr/lib/splash/plugins">>

\* How many paths the list of search paths is grown to at most.
MaxSearchPaths == 4

\* The paths a caller adds with add_path.
AddedPaths == {SearchPaths[1], SearchPaths[2]}

\* PluginDiscovery::new(): the default paths, on unix, where the home
\* directory is known (home) and where it is not.
DefaultPaths(home) == IF home THEN SearchPaths ELSE Tail(SearchPaths)

\* PluginDiscovery::with_paths(paths): the lists a discovery is built
\* with: none, the first directory, or the first directory twice.
SearchPathLists == {<<>>, <<SearchPaths[1]>>, <<SearchPaths[1], SearchPaths[1]>>}

\* What the iterator of fs::read_dir may yield: a file or a directory with its
\* name, or an error.
DirEntries ==
    {[tag |-> "Entry", name |-> n, is_file |-> TRUE] :
        n \in {<<"apache", ".", "so">>, <<"lib", "apache", ".", "dylib">>,
               <<"syslog", ".", "SO">>, <<"apache", ".", "txt">>,
               <<"apache">>}}
    \cup {[tag |-> "Entry", name |-> <<"apache", ".", "dll">>, is_file |-> FALSE]}
    \cup {[tag |-> "Err", kind |-> "PermissionDenied"]}

\* What a search path may be: nothing, a file, or a directory whose listing
\* is refused (for lack of permission or for another reason) or yields entries.
PathStates ==
    {[kind |-> "missing"], [kind |-> "file"]}
    \cup {[kind |-> "dir", read_dir |-> k, entries |-> <<>>] :
             k \in {"PermissionDenied", "Other"}}
    \cup {[kind |-> "dir", read_dir |-> "Ok", entries |-> es] :
             es \in UNION {[1..n -> DirEntries] : n \in 0..MaxEntries}}

\* What a directory of the system is: nothing, or a directory that holds one
\* plugin file.
SystemPathStates ==
    {[kind |-> "missing"],
     [kind |-> "dir", read_dir |-> "Ok",
      entries |-> <<[tag |-> "Entry", name |-> <<"apache", ".", "so">>,
                     is_file |-> TRUE]>>]}

\* The plugin names a caller may look for.
PluginNames == {<<"apache">>, <<"syslog">>}

VARIABLES
    fsys,         \* the file system: what each search path is
    search_paths, \* PluginDiscovery.search_paths
    discOp,       \* the last call of the discovery and its argument
    discRet       \* what that call returned

discVars == <<fsys, search_paths, discOp, discRet>>

\* DiscoveryError::IoError(e)
IoError(kind) == [tag |-> "Err", err |-> "IoError", kind |-> kind]

\* search_path.join(name): the path of an entry
EntryPath(dir, name) == [dir |-> dir, name |-> name]

\* The index of the last dot of a file name that has something before it, or 0
\* (Path::extension and Path::file_stem split there).
RECURSIVE LastDot(_, _)
LastDot(name, i) ==
    IF i <= 1 THEN 0
    ELSE IF name[i] = "." THEN i
    ELSE LastDot(name, i - 1)

\* Path::extension: what follows the last dot, if there is one
extension(name) ==
    LET i == LastDot(name, Len(name)) IN
    IF i = 0 THEN NoValue ELSE Some(SubSeq(name, i + 1, Len(name)))

\* Path::file_stem: what precedes the last dot, or the whole name
file_stem(name) ==
    LET i == LastDot(name, Len(name)) IN
    IF i = 0 THEN name ELSE SubSeq(name, 1, i - 1)

\* str::to_lowercase, piece by piece
to_lowercase(text) ==
    [i \in 1..Len(text) |->
        CASE text[i] = "SO" -> "so"
          [] text[i] = "DLL" -> "dll"
          [] text[i] = "DYLIB" -> "dylib"
          [] OTHER -> text[i]]

\* An is_plugin_file that compares the extension as it is written.
is_plugin_file_case_sensitive(entry) ==
    IF ~entry.is_file THEN FALSE
    ELSE LET ext == extension(entry.name) IN
         IF ext.tag = "Some"
         THEN ext.value \in {<<"so">>, <<"dylib">>, <<"dll">>}
         ELSE FALSE

\* is_plugin_file, lines 142-153
is_plugin_file(entry) ==
    IF ~entry.is_file THEN FALSE
    ELSE LET ext == extension(entry.name) IN
         IF ext.tag = "Some"
         THEN to_lowercase(ext.value) \in {<<"so">>, <<"dylib">>, <<"dll">>}
         ELSE FALSE

\* discover_plugins, lines 129-137: the loop over the entries of one directory,
\* with the candidates found so far
RECURSIVE ScanEntries(_, _, _)
ScanEntries(dir, entries, plugin_files) ==
    IF entries = <<>> THEN [tag |-> "Ok", files |-> plugin_files]
    ELSE IF Head(entries).tag = "Err" THEN IoError(Head(entries).kind)
    ELSE ScanEntries(dir, Tail(entries),
                     IF is_plugin_file(Head(entries))
                     THEN Append(plugin_files, EntryPath(dir, Head(entries).name))
                     ELSE plugin_files)

\* A scan that skips no directory whose listing fails.
SkipsNoListingError(kind) == FALSE

\* discover_plugins, line 122: the listing error that makes the scan skip the
\* directory
SkipsListingError(kind) == kind = "PermissionDenied"

\* discover_plugins, lines 107-126 and the call of the inner loop: the loop over
\* the search paths from the i-th on
RECURSIVE ScanPaths(_, _, _, _)
ScanPaths(fs, paths, i, plugin_files) ==
    IF i > Len(paths) THEN [tag |-> "Ok", files |-> plugin_files]
    ELSE LET search_path == paths[i]
             st == fs[search_path]
         IN  IF st.kind = "missing" THEN ScanPaths(fs, paths, i + 1, plugin_files)
             ELSE IF st.kind # "dir" THEN ScanPaths(fs, paths, i + 1, plugin_files)
             ELSE IF st.read_dir # "Ok" /\ SkipsListingError(st.read_dir)
                  THEN ScanPaths(fs, paths, i + 1, plugin_files)
             ELSE IF st.read_dir # "Ok" THEN IoError(st.read_dir)
             ELSE LET r == ScanEntries(search_path, st.entries, plugin_files) IN
                  IF r.tag = "Err" THEN r ELSE ScanPaths(fs, paths, i + 1, r.files)

\* discover_plugins, lines 104-139
discover_plugins(fs, paths) == ScanPaths(fs, paths, 1, <<>>)

\* A search that wants the name as it is, without the lib prefix.
StemMatchesExactly(name, stem) == stem = name

\* find_plugin, line 164: the stem is the name, or "lib" followed by the name
StemMatches(name, stem) == stem = name \/ stem = <<"lib">> \o name

\* find_plugin, lines 158-168: the loop over the candidates
RECURSIVE FirstMatch(_, _)
FirstMatch(plugin_files, name) ==
    IF plugin_files = <<>> THEN NoValue
    ELSE IF StemMatches(name, file_stem(Head(plugin_files).name))
         THEN Some(Head(plugin_files))
         ELSE FirstMatch(Tail(plugin_files), name)

\* find_plugin, lines 155-171
find_plugin(fs, paths, name) ==
    LET r == discover_plugins(fs, paths) IN
    IF r.tag = "Err" THEN r
    ELSE [tag |-> "Ok", found |-> FirstMatch(r.files, name)]

\* No discovery has been made.
IdleDiscovery ==
    /\ fsys = [q \in Range(SearchPaths) |-> [kind |-> "missing"]]
    /\ search_paths = <<>>
    /\ discOp = NoCall
    /\ discRet = NoValue

\* PluginDiscovery::new() or PluginDiscovery::with_paths(paths), over some
\* file system.
InitDiscovery ==
    /\ search_paths \in SearchPathLists \cup {DefaultPaths(home) : home \in BOOLEAN}
    /\ fsys \in {[q \in Range(SearchPaths) |->
                    IF q = SearchPaths[1] THEN user
                    ELSE IF q = SearchPaths[2] THEN local ELSE system] :
                 user \in PathStates, local \in SystemPathStates,
                 system \in SystemPathStates}
    /\ discOp = NoCall
    /\ discRet = NoValue

\* add_path(path): the path is pushed onto the list, whether the list
\* holds it already or not. The code sets no limit to the list; the calls
\* are made while it holds fewer than MaxSearchPaths paths.
AddPath(path) ==
    /\ Len(search_paths) < MaxSearchPaths
    /\ search_paths' = Append(search_paths, path)
    /\ discOp' = [name |-> "add_path", arg |-> path]
    /\ discRet' = NoValue
    /\ UNCHANGED fsys

DiscoverPlugins ==
    /\ discOp' = [name |-> "discover_plugins"]
    /\ discRet' = discover_plugins(fsys, search_paths)
    /\ UNCHANGED <<fsys, search_paths>>

FindPlugin(name) ==
    /\ discOp' = [name |-> "find_plugin", arg |-> name]
    /\ discRet' = find_plugin(fsys, search_paths, name)
    /\ UNCHANGED <<fsys, search_paths>>

(***************************************************************************)
(* The token highlighter (print_highlighted, highlight_word and            *)
(* highlight_chars of src/src/main.rs). A string is the sequence of its    *)
(* characters and "ESC" stands for the one character U+001B, so that a     *)
(* style marker is the character sequence the colored crate writes and     *)
(* the matchers of the word pass read its digits and its bracket.          *)
(***************************************************************************)
\* How many pieces an input line is made of at most.
MaxPieces == 4

\* What the input lines are made of.
LinePieces ==
    { <<"1", ".", "2", ".", "3", ".", "4">>, <<"G", "E", "T">>,
      <<"P", "O", "S", "T">>, <<"\"">>, <<"[">>, <<" ">>, <<"7">>, <<"x">> }

RECURSIVE Concat(_)
Concat(pieces) ==
    IF pieces = <<>> THEN <<>> ELSE Head(pieces) \o Concat(Tail(pieces))

\* The lines print_adhoc hands to print_highlighted: never the empty one.
HighlightedLines ==
    {Concat(ps) : ps \in UNION {[1..n -> LinePieces] : n \in 1..MaxPieces}}

\* The SGR parameters of the styles main.rs asks the colored crate for.
BrightCyan == <<"9", "6">>
BrightGreen == <<"9", "2">>
Blue == <<"3", "4">>
RedOnWhite == <<"4", "7", ";", "3", "1">>

\* ColoredString::compute_style: the marker that opens a style.
StyleMarker(style) == <<"ESC", "[">> \o style \o <<"m">>

\* The marker that closes every style.
ResetMarker == <<"ESC", "[", "0", "m">>

\* ColoredString::escape_inner_reset_sequences: the style is opened again
\* after every reset marker the styled text holds itself.
RECURSIVE escape_inner_reset_sequences(_, _)
escape_inner_reset_sequences(text, style) ==
    IF text = <<>> THEN <<>>
    ELSE IF Len(text) >= Len(ResetMarker)
            /\ SubSeq(text, 1, Len(ResetMarker)) = ResetMarker
         THEN ResetMarker \o StyleMarker(style)
              \o escape_inner_reset_sequences(
                     SubSeq(text, Len(ResetMarker) + 1, Len(text)), style)
         ELSE <<Head(text)>> \o escape_inner_reset_sequences(Tail(text), style)

\* text.<style>().to_string(): the text as it is when colors are off,
\* between the style's marker and the reset marker when they are on.
Styled(text, style, colors) ==
    IF colors
    THEN StyleMarker(style) \o escape_inner_reset_sequences(text, style)
         \o ResetMarker
    ELSE text

\* \d of the matchers.
IsDigit(c) == c \in Range(DigitChars)

\* MATCHERS "number", ^\d+$, line 11
number_is_match(word) ==
    /\ word # <<>>
    /\ \A i \in 1..Len(word) : IsDigit(word[i])

\* How many digits follow each other from position i on.
RECURSIVE DigitRun(_, _)
DigitRun(word, i) ==
    IF i > Len(word) \/ ~IsDigit(word[i]) THEN 0 ELSE 1 + DigitRun(word, i + 1)

\* \d{1,3}\.\d{1,3}\.\d{1,3}\.\d{1,3} matched from position i with n groups
\* to go: the position of its last character, 0 when it does not match.
RECURSIVE MatchQuad(_, _, _)
MatchQuad(word, i, n) ==
    LET run == DigitRun(word, i) IN
    IF n = 1
    THEN IF run >= 1 THEN i + (IF run > 3 THEN 3 ELSE run) - 1 ELSE 0
    ELSE IF run \in 1..3 /\ i + run <= Len(word) /\ word[i + run] = "."
         THEN MatchQuad(word, i + run + 1, n - 1)
         ELSE 0

\* MATCHERS "ip_addr", .*(\d{1,3}\.\d{1,3}\.\d{1,3}\.\d{1,3}).*, line 9
ip_addr_is_match(word) == \E i \in 1..Len(word) : MatchQuad(word, i, 4) # 0

\* GET|POST matched at position i: its length, 0 when it does not match.
VerbAt(word, i) ==
    IF i + 2 <= Len(word) /\ SubSeq(word, i, i + 2) = <<"G", "E", "T">> THEN 3
    ELSE IF i + 3 <= Len(word)
            /\ SubSeq(word, i, i + 3) = <<"P", "O", "S", "T">> THEN 4
    ELSE 0

\* MATCHERS "http_verb", (.*)(GET|POST)(.*), line 10
http_verb_is_match(word) == \E i \in 1..Len(word) : VerbAt(word, i) # 0

\* re.captures(word) of "http_verb": the first (.*) is greedy, the verb is
\* the last one of the word.
http_verb_captures(word) ==
    LET at == CHOOSE i \in 1..Len(word) :
                  /\ VerbAt(word, i) # 0
                  /\ \A j \in (i + 1)..Len(word) : VerbAt(word, j) = 0
    IN  << SubSeq(word, 1, at - 1),
           SubSeq(word, at, at + VerbAt(word, at) - 1),
           SubSeq(word, at + VerbAt(word, at), Len(word)) >>

\* A highlight_word that tests the verb before the dotted quad.
highlight_word_verb_first(word, colors) ==
    IF number_is_match(word)
    THEN [rule |-> "number", text |-> Styled(word, Blue, colors)]
    ELSE IF http_verb_is_match(word)
    THEN LET caps == http_verb_captures(word) IN
         [rule |-> "http_verb",
          text |-> caps[1] \o Styled(caps[2], BrightGreen, colors) \o caps[3]]
    ELSE IF ip_addr_is_match(word)
    THEN [rule |-> "ip_addr", text |-> Styled(word, RedOnWhite, colors)]
    ELSE [rule |-> "none", text |-> word]

\* highlight_word, lines 152-178: the rule that styled the word and the
\* text of the ColoredString it returns.
highlight_word(word, colors) ==
    IF number_is_match(word)
    THEN [rule |-> "number", text |-> Styled(word, Blue, colors)]
    ELSE IF ip_addr_is_match(word)
    THEN [rule |-> "ip_addr", text |-> Styled(word, RedOnWhite, colors)]
    ELSE IF http_verb_is_match(word)
    THEN LET caps == http_verb_captures(word) IN
         [rule |-> "http_verb",
          text |-> caps[1] \o Styled(caps[2], BrightGreen, colors) \o caps[3]]
    ELSE [rule |-> "none", text |-> word]

\* A highlight_chars that drops the quote instead of styling it.
RECURSIVE highlight_chars_dropping(_, _)
highlight_chars_dropping(line, colors) ==
    IF line = <<>> THEN <<>>
    ELSE (IF Head(line) = "\"" THEN <<>>
          ELSE IF Head(line) \in {"[", "]"}
          THEN Styled(<<Head(line)>>, BrightGreen, colors)
          ELSE <<Head(line)>>)
         \o highlight_chars_dropping(Tail(line), colors)

\* highlight_chars, lines 180-196
RECURSIVE highlight_chars(_, _)
highlight_chars(line, colors) ==
    IF line = <<>> THEN <<>>
    ELSE (IF Head(line) = "\"" THEN Styled(<<Head(line)>>, BrightCyan, colors)
          ELSE IF Head(line) \in {"[", "]"}
          THEN Styled(<<Head(line)>>, BrightGreen, colors)
          ELSE <<Head(line)>>)
         \o highlight_chars(Tail(line), colors)

\* char::is_whitespace on the characters of the lines.
IsWhitespace(c) == c \in {" "}

\* str::split_whitespace: the maximal runs of characters that are not
\* whitespace, in order.
RECURSIVE split_whitespace(_, _)
split_whitespace(s, word) ==
    IF s = <<>> THEN (IF word = <<>> THEN <<>> ELSE <<word>>)
    ELSE IF IsWhitespace(Head(s))
         THEN (IF word = <<>> THEN <<>> ELSE <<word>>)
              \o split_whitespace(Tail(s), <<>>)
         ELSE split_whitespace(Tail(s), Append(word, Head(s)))

\* A trim that leaves the string as it is.
trim_nothing(s) == s

\* str::trim
RECURSIVE trim(_)
trim(s) ==
    IF s = <<>> THEN s
    ELSE IF IsWhitespace(Head(s)) THEN trim(Tail(s))
    ELSE IF IsWhitespace(s[Len(s)]) THEN trim(SubSeq(s, 1, Len(s) - 1))
    ELSE s

\* The loop of print_highlighted, lines 140-143: what highlight_word made
\* of each word.
HighlightWords(words, colors) ==
    [i \in 1..Len(words) |->
        [word |-> words[i],
         rule |-> highlight_word(words[i], colors).rule,
         text |-> highlight_word(words[i], colors).text]]

\* final_str of print_highlighted after the loop.
RECURSIVE FinalStr(_)
FinalStr(done) ==
    IF done = <<>> THEN <<>>
    ELSE Head(done).text \o <<" ">> \o FinalStr(Tail(done))

VARIABLES
    hlLine,     \* the line print_highlighted is called with
    colorize,   \* whether the colored crate writes style markers
    hlWords,    \* what the word pass made of each word, in order
    hlOut       \* the line print_highlighted printed

hlVars == <<hlLine, colorize, hlWords, hlOut>>

\* Nothing is highlighted.
IdleHighlight ==
    /\ hlLine = <<>>
    /\ colorize = FALSE
    /\ hlWords = <<>>
    /\ hlOut = NoValue

\* print_adhoc has a line for print_highlighted.
InitHighlight ==
    /\ hlLine \in HighlightedLines
    /\ colorize \in BOOLEAN
    /\ hlWords = <<>>
    /\ hlOut = NoValue

\* print_highlighted, lines 136-146
PrintHighlighted ==
    /\ hlOut = NoValue
    /\ LET hcs == highlight_chars(hlLine, colorize)
           done == HighlightWords(split_whitespace(hcs, <<>>), colorize)
       IN  /\ hlWords' = done
           /\ hlOut' = Some(trim(FinalStr(done)))
    /\ UNCHANGED <<hlLine, colorize>>

(***************************************************************************)
(* The structured parser (print_clf of src/src/main.rs) on one line of     *)
(* the contents. The regular expression is matched as the regex crate      *)
(* matches it: the leftmost start, \S+ and \d+ greedy, .*? lazy, and the   *)
(* search going on after the end of each match.                            *)
(***************************************************************************)
\* How many pieces a line for print_clf is made of at most.
MaxClfPieces == 4

\* What the lines for print_clf are made of: the parts of a record, each
\* with the space after it, well formed or not.
ClfPieces ==
    { <<"1", ".", "2", ".", "3", ".", "4", " ", "-", " ", "f", " ">>,
      <<"1", ".", "2", ".", "3", " ", "-", " ", "f", " ">>,
      <<"[", "d", " ", "t", "]", " ">>,
      <<"\"", "G", "E", "T", " ", "/", "a", " ", "H", "\"", " ">>,
      <<"\"", "g", "e", "t", " ", "/", "a", " ", "H", "\"", " ">>,
      <<"2", "0", "0", " ", "5", " ">>,
      <<"4", "0", "4", " ", "-", " ">>,
      <<"x", " ">> }

\* The lines of the contents, the empty one among them.
ClfLines ==
    {Concat(ps) : ps \in UNION {[1..n -> ClfPieces] : n \in 0..MaxClfPieces}}

\* [A-Z]
UpperChars ==
    { "A", "B", "C", "D", "E", "F", "G", "H", "I", "J", "K", "L", "M", "N",
      "O", "P", "Q", "R", "S", "T", "U", "V", "W", "X", "Y", "Z" }

\* The character classes of the expression: \d, [A-Z] and \S.
InClass(c, class) ==
    CASE class = "digit" -> IsDigit(c)
      [] class = "upper" -> c \in UpperChars
      [] class = "nonspace" -> ~IsWhitespace(c)

\* How many characters of the class follow each other from position i on.
RECURSIVE ClassRun(_, _, _)
ClassRun(line, i, class) ==
    IF i > Len(line) \/ ~InClass(line[i], class) THEN 0
    ELSE 1 + ClassRun(line, i + 1, class)

\* A match that failed. A match under way is the groups captured so far
\* and "end", the position of the last character matched.
NoMatchAt == [end |-> -1]

\* The match m with one more group, and its new end.
Captured(m, group, text, end) ==
    [f \in DOMAIN m \cup {group} |->
        IF f = group THEN text ELSE IF f = "end" THEN end ELSE m[f]]

\* \s after the match m
MatchSpace(line, m) ==
    IF m.end >= 0 /\ m.end < Len(line) /\ IsWhitespace(line[m.end + 1])
    THEN [m EXCEPT !.end = @ + 1]
    ELSE NoMatchAt

\* The one character ch after the match m.
MatchChar(line, m, ch) ==
    IF m.end >= 0 /\ m.end < Len(line) /\ line[m.end + 1] = ch
    THEN [m EXCEPT !.end = @ + 1]
    ELSE NoMatchAt

\* A group of lo to hi characters of a class after the match m, as many
\* as there are: (\S+), ([A-Z]+), (\d{3}). What follows each of them in
\* the expression is not of its class, so giving characters back never
\* helps.
MatchClass(line, m, group, class, lo, hi) ==
    LET run == ClassRun(line, m.end + 1, class) IN
    IF m.end >= 0 /\ run >= lo
    THEN Captured(m, group,
                  SubSeq(line, m.end + 1, m.end + (IF run > hi THEN hi ELSE run)),
                  m.end + (IF run > hi THEN hi ELSE run))
    ELSE NoMatchAt

\* ([\d]{1,3}\.[\d]{1,3}\.[\d]{1,3}\.[\d]{1,3}) from position i, line 202
MatchClient(line, i) ==
    IF MatchQuad(line, i, 4) # 0
    THEN [end |-> MatchQuad(line, i, 4),
          client |-> SubSeq(line, i, MatchQuad(line, i, 4))]
    ELSE NoMatchAt

\* (\S+)" after the match m, line 210: the protocol is the run of
\* non-space characters without the quote that ends it; \s follows the
\* quote, so the quote is the last character of the run.
MatchProtocol(line, m) ==
    LET run == ClassRun(line, m.end + 1, "nonspace") IN
    IF m.end >= 0 /\ run >= 2 /\ line[m.end + run] = "\""
    THEN Captured(m, "protocol", SubSeq(line, m.end + 1, m.end + run - 1),
                  m.end + run)
    ELSE NoMatchAt

\* (\d+|-) after the match m, line 214
MatchSize(line, m) ==
    IF MatchClass(line, m, "size", "digit", 1, Len(line)).end >= 0
    THEN MatchClass(line, m, "size", "digit", 1, Len(line))
    ELSE IF MatchChar(line, m, "-").end >= 0
    THEN Captured(m, "size", <<"-">>, m.end + 1)
    ELSE NoMatchAt

\* \s(\d{3})\s(\d+|-) after the match m, lines 211-214
MatchStatusSize(line, m) ==
    MatchSize(line,
        MatchSpace(line,
            MatchClass(line, MatchSpace(line, m), "status", "digit", 3, 3)))

\* A rest of the expression that does without the quoted triple.
MatchRestWithoutTriple(line, m) ==
    MatchStatusSize(line,
        Captured(Captured(Captured(m, "method", <<>>, m.end),
                          "request", <<>>, m.end), "protocol", <<>>, m.end))

\* What follows the datetime, lines 209-214, after the match m:
\* \s"([A-Z]+)\s(\S+)\s(\S+)"\s(\d{3})\s(\d+|-)
MatchRest(line, m) ==
    MatchStatusSize(line,
        MatchProtocol(line,
            MatchSpace(line,
                MatchClass(line,
                    MatchSpace(line,
                        MatchClass(line,
                            MatchChar(line, MatchSpace(line, m), "\""),
                            "method", "upper", 1, Len(line))),
                    "request", "nonspace", 1, Len(line)))))

\* (?:(\[.*?\])) after the match m, line 208, and what follows it: .*? is
\* lazy, the datetime ends at the first ] after which the rest matches.
MatchDatetime(line, m) ==
    LET open == MatchChar(line, m, "[")
        closes == {k \in (open.end + 1)..Len(line) :
                      /\ line[k] = "]"
                      /\ MatchRest(line, [open EXCEPT !.end = k]).end >= 0}
    IN  IF open.end >= 0 /\ closes # {}
        THEN LET close == CHOOSE k \in closes : \A l \in closes : k <= l IN
             MatchRest(line,
                 Captured(m, "datetime", SubSeq(line, m.end + 1, close), close))
        ELSE NoMatchAt

\* The whole expression, lines 200-216, matched from position i: the nine
\* groups and the position of the last character, or no match.
MatchLogAt(line, i) ==
    MatchDatetime(line,
        MatchSpace(line,
            MatchClass(line,
                MatchSpace(line,
                    MatchClass(line, MatchSpace(line, MatchClient(line, i)),
                               "user_identifier", "nonspace", 1, Len(line))),
                "userid", "nonspace", 1, Len(line))))

\* re.captures_iter(line), line 225: the matches from left to right, each
\* searched after the end of the one before. Every group of the
\* expression takes part in every match, so filter_map keeps them all.
RECURSIVE captures_iter(_, _)
captures_iter(line, from) ==
    LET starts == {i \in from..Len(line) : MatchLogAt(line, i).end >= 0} IN
    IF starts = {} THEN <<>>
    ELSE LET cap == MatchLogAt(line, CHOOSE k \in starts : \A l \in starts : k <= l)
         IN  <<[f \in DOMAIN cap \ {"end"} |-> cap[f]]>>
             \o captures_iter(line, cap.end + 1)

\* The SGR parameters of the styles print_clf asks for, lines 264-270.
ClfStyles ==
    [client |-> <<"9", "1">>, user_identifier |-> <<"3", "7">>,
     userid |-> <<"1", ";", "3", "7">>, datetime |-> <<"9", "5">>,
     method |-> <<"9", "6">>, request |-> <<"3", "6">>,
     protocol |-> <<"3", "6">>, status |-> <<"9", "3">>,
     size |-> <<"9", "2">>]

\* The line lines 264-271 print for a record.
PrintLog(field, colors) ==
    LET S(f) == Styled(field[f], ClfStyles[f], colors) IN
    S("client") \o <<" ">> \o S("user_identifier") \o <<" ">> \o S("userid")
    \o <<" ">> \o S("datetime") \o <<" ", "\"">> \o S("method") \o <<" ">>
    \o S("request") \o <<" ">> \o S("protocol") \o <<"\"", " ">>
    \o S("status") \o <<" ">> \o S("size")

VARIABLES
    clfLine,    \* the line of the contents print_clf is at
    clfColors,  \* whether the colored crate writes style markers
    clfFields,  \* the records made from the line, in order
    clfOut      \* the lines printed for the line, once it is done

clfVars == <<clfLine, clfColors, clfFields, clfOut>>

\* print_clf is not called.
IdleClf ==
    /\ clfLine = <<>>
    /\ clfColors = FALSE
    /\ clfFields = <<>>
    /\ clfOut = NoValue

\* print_clf has a line of the contents.
InitClf ==
    /\ clfLine \in ClfLines
    /\ clfColors \in BOOLEAN
    /\ clfFields = <<>>
    /\ clfOut = NoValue

\* One turn of the loop of print_clf, lines 220-273.
PrintClfLine ==
    /\ clfOut = NoValue
    /\ LET fields == IF clfLine = <<>> THEN <<>>
                     ELSE captures_iter(clfLine, 1)
       IN  /\ clfFields' = fields
           /\ clfOut' = Some([i \in 1..Len(fields) |->
                                  PrintLog(fields[i], clfColors)])
    /\ UNCHANGED <<clfLine, clfColors>>

(***************************************************************************)
(* The specifications.                                                     *)
(***************************************************************************)
\* Before watch() is called: nothing of the tailer has happened.
IdleTail ==
    /\ file = <<>>
    /\ fileExists = TRUE
    /\ pos = 0
    /\ seekPos = 0
    /\ wpc = "start"
    /\ chan = <<>>
    /\ cur = "none"
    /\ watcherAlive = TRUE
    /\ batches = <<>>
    /\ startLen = -1
    /\ writes = 0
    /\ truncates = 0
    /\ errors = 0
    /\ touches = 0

\* What a call of the single caller leaves alone.
CallerFrame == UNCHANGED <<concVars, tailVars, versionVars, mainVars, detectVars, discVars, hlVars, clfVars>>
\* What a step of a thread leaves alone.
ThreadFrame ==
    UNCHANGED <<poisoned, op, ret, prePlugins, preDisabled, everRegistered, lastRegistered,
                tailVars, versionVars, mainVars, detectVars, discVars, hlVars, clfVars>>
\* What a step of the tailer or of its environment leaves alone.
TailFrame == UNCHANGED <<regVars, concVars, versionVars, mainVars, detectVars, discVars, hlVars, clfVars>>
\* What a comparison of versions leaves alone.
VersionFrame == UNCHANGED <<regVars, concVars, tailVars, mainVars, detectVars, discVars, hlVars, clfVars>>
\* What a step of main leaves alone.
MainFrame == UNCHANGED <<regVars, concVars, tailVars, versionVars, detectVars, discVars, hlVars, clfVars>>
\* What a call of detect_format leaves alone.
DetectFrame == UNCHANGED <<regVars, concVars, tailVars, versionVars, mainVars, discVars, hlVars, clfVars>>
\* What a call of the discovery leaves alone.
DiscoveryFrame == UNCHANGED <<regVars, concVars, tailVars, versionVars, mainVars, detectVars, hlVars, clfVars>>
\* What print_highlighted leaves alone.
HighlightFrame == UNCHANGED <<regVars, concVars, tailVars, versionVars, mainVars, detectVars, discVars, clfVars>>
\* What print_clf leaves alone.
ClfFrame == UNCHANGED <<regVars, concVars, tailVars, versionVars, mainVars, detectVars, discVars, hlVars>>

vars == <<regVars, concVars, tailVars, versionVars, mainVars, detectVars, discVars, hlVars, clfVars>>

\* The registry and one caller.
Init == NewRegistry /\ InitThreads /\ IdleTail /\ IdleVersion /\ IdleMain /\ IdleDetect /\ IdleDiscovery /\ IdleHighlight /\ IdleClf

Next ==
    \/ \E p \in PluginPool : Register(p) /\ CallerFrame
    \/ RegisterPanics /\ CallerFrame
    \/ \E n \in Names : Unregister(n) /\ CallerFrame
    \/ \E n \in Names : Get(n) /\ CallerFrame
    \/ ListPlugins /\ CallerFrame
    \/ Count /\ CallerFrame
    \/ \E n \in Names : Contains(n) /\ CallerFrame
    \/ \E n \in Names : DisablePlugin(n) /\ CallerFrame
    \/ \E n \in Names : EnablePlugin(n) /\ CallerFrame
    \/ \E n \in Names : IsDisabled(n) /\ CallerFrame
    \/ ListEnabledPlugins /\ CallerFrame
    \/ \E n \in Names, r \in RequiredVersions : VerifyVersion(n, r) /\ CallerFrame

Spec == Init /\ [][Next]_vars

\* The registry and several concurrent callers.
InitConc == NewRegistry /\ InitThreads /\ IdleTail /\ IdleVersion /\ IdleMain /\ IdleDetect /\ IdleDiscovery /\ IdleHighlight /\ IdleClf

NextConc ==
    \/ \E t \in Threads, c \in Calls : Call(t, c) /\ ThreadFrame
    \/ \E t \in Threads : PluginsWrite(t) /\ ThreadFrame
    \/ \E t \in Threads : RegisterBody(t) /\ ThreadFrame
    \/ \E t \in Threads : UnregisterBody(t) /\ ThreadFrame
    \/ \E t \in Threads : PluginsRead(t) /\ ThreadFrame
    \/ \E t \in Threads : ContainsBody(t) /\ ThreadFrame
    \/ \E t \in Threads : DisabledWrite(t) /\ ThreadFrame
    \/ \E t \in Threads : DisableBody(t) /\ ThreadFrame
    \/ \E t \in Threads : EnableBody(t) /\ ThreadFrame
    \/ \E t \in Threads : ListPluginsBody(t) /\ ThreadFrame
    \/ \E t \in Threads : DisabledRead(t) /\ ThreadFrame
    \/ \E t \in Threads : ListEnabledBody(t) /\ ThreadFrame

SpecConc == InitConc /\ [][NextConc]_vars

\* A thread makes its one call.
CallOnce(t, c) == tcall[t] = NoCall /\ Call(t, c)

\* A step of a thread inside its call.
ThreadStep(t) ==
    \/ PluginsWrite(t) \/ RegisterBody(t) \/ UnregisterBody(t)
    \/ PluginsRead(t) \/ ContainsBody(t)
    \/ DisabledWrite(t) \/ DisableBody(t) \/ EnableBody(t)
    \/ ListPluginsBody(t) \/ DisabledRead(t) \/ ListEnabledBody(t)

\* The registry and a finite set of calls, one per thread, made at any
\* time. The scheduler is fair: a thread that can take a step, because it is
\* running or because the lock it waits for stays free, takes it.
NextOnce ==
    \/ \E t \in Threads, c \in Calls : CallOnce(t, c) /\ ThreadFrame
    \/ \E t \in Threads : PluginsWrite(t) /\ ThreadFrame
    \/ \E t \in Threads : RegisterBody(t) /\ ThreadFrame
    \/ \E t \in Threads : UnregisterBody(t) /\ ThreadFrame
    \/ \E t \in Threads : PluginsRead(t) /\ ThreadFrame
    \/ \E t \in Threads : ContainsBody(t) /\ ThreadFrame
    \/ \E t \in Threads : DisabledWrite(t) /\ ThreadFrame
    \/ \E t \in Threads : DisableBody(t) /\ ThreadFrame
    \/ \E t \in Threads : EnableBody(t) /\ ThreadFrame
    \/ \E t \in Threads : ListPluginsBody(t) /\ ThreadFrame
    \/ \E t \in Threads : DisabledRead(t) /\ ThreadFrame
    \/ \E t \in Threads : ListEnabledBody(t) /\ ThreadFrame

\* Every step of a thread moves its position, so fairness is stated on tpc.
SpecOnce ==
    /\ InitConc
    /\ [][NextOnce]_vars
    /\ \A t \in Threads : WF_tpc(ThreadStep(t) /\ ThreadFrame)

\* The tailer, the writers of the file and the watch subsystem.
InitWatch == NewRegistry /\ InitThreads /\ InitTail /\ IdleVersion /\ IdleMain /\ IdleDetect /\ IdleDiscovery /\ IdleHighlight /\ IdleClf

NextTail ==
    \/ TailStart /\ TailFrame
    \/ Recv /\ TailFrame
    \/ RecvDisconnected /\ TailFrame
    \/ OpenSeek /\ TailFrame
    \/ Metadata /\ TailFrame
    \/ ReadEmit /\ TailFrame
    \/ AppendByte /\ TailFrame
    \/ \E n \in 0..(MaxInitLen + MaxWrites) : Truncate(n) /\ TailFrame
    \/ Remove /\ TailFrame
    \/ WatchError /\ TailFrame
    \/ Touch /\ TailFrame
    \/ WatcherDies /\ TailFrame

SpecTail == InitWatch /\ [][NextTail]_vars

\* Pairs of versions and their comparison.
InitCompare == NewRegistry /\ InitThreads /\ IdleTail /\ InitVersion /\ IdleMain /\ IdleDetect /\ IdleDiscovery /\ IdleHighlight /\ IdleClf

NextVersion == IsCompatibleWith /\ VersionFrame

SpecVersion == InitCompare /\ [][NextVersion]_vars

\* main(), its arguments and its standard input.
InitProcess == NewRegistry /\ InitThreads /\ IdleTail /\ IdleVersion /\ InitMain /\ IdleDetect /\ IdleDiscovery /\ IdleHighlight /\ IdleClf

NextMain ==
    \/ MainArgs /\ MainFrame
    \/ StdinLine /\ MainFrame
    \/ StdinClosed /\ MainFrame
    \/ \E contents \in Texts : WatchPrints(contents) /\ MainFrame
    \/ WatchFails /\ MainFrame

SpecMain == InitProcess /\ [][NextMain]_vars

\* A plugin and the sample lines of a caller.
InitSamples == NewRegistry /\ InitThreads /\ IdleTail /\ IdleVersion /\ IdleMain /\ InitDetect /\ IdleDiscovery /\ IdleHighlight /\ IdleClf

NextDetect == DetectFormat /\ DetectFrame

SpecDetect == InitSamples /\ [][NextDetect]_vars

\* The discovery and a file system.
InitFileSystem == NewRegistry /\ InitThreads /\ IdleTail /\ IdleVersion /\ IdleMain /\ IdleDetect /\ InitDiscovery /\ IdleHighlight /\ IdleClf

NextDiscovery ==
    \/ \E path \in AddedPaths : AddPath(path) /\ DiscoveryFrame
    \/ DiscoverPlugins /\ DiscoveryFrame
    \/ \E name \in PluginNames : FindPlugin(name) /\ DiscoveryFrame

SpecDiscovery == InitFileSystem /\ [][NextDiscovery]_vars

\* print_highlighted on one line.
InitLine == NewRegistry /\ InitThreads /\ IdleTail /\ IdleVersion /\ IdleMain /\ IdleDetect /\ IdleDiscovery /\ InitHighlight /\ IdleClf

NextHighlight == PrintHighlighted /\ HighlightFrame

SpecHighlight == InitLine /\ [][NextHighlight]_vars

\* print_clf on one line.
InitLogLine == NewRegistry /\ InitThreads /\ IdleTail /\ IdleVersion /\ IdleMain /\ IdleDetect /\ IdleDiscovery /\ IdleHighlight /\ InitClf

NextClf == PrintClfLine /\ ClfFrame

SpecClf == InitLogLine /\ [][NextClf]_vars

(***************************************************************************)
(* The registry and one caller (Spec).                                     *)
(***************************************************************************)
\* C1: register(p), with the plugins lock not poisoned: when p's name is
\* already registered it returns PluginAlreadyRegistered(name) and leaves the
\* mapping and the disabled list as they were; otherwise it returns Ok, the
\* name is contained afterwards, p is the instance stored under it and count()
\* has grown by exactly one.
C1_RegisterContract ==
    (op.name = "register" /\ "plugins" \notin poisoned) =>
        IF op.arg.name \in DOMAIN prePlugins
        THEN /\ ret = PluginAlreadyRegistered(op.arg.name)
             /\ plugins = prePlugins
             /\ disabled = preDisabled
        ELSE /\ ret = Ok
             /\ contains(plugins, poisoned, op.arg.name)
             /\ plugins[op.arg.name] = op.arg
             /\ count(plugins, poisoned) = count(prePlugins, poisoned) + 1
             /\ disabled = preDisabled

\* C1's case: a second register under a name that holds another instance,
\* while a name is disabled.
C1_Witness ==
    /\ op.name = "register"
    /\ "plugins" \notin poisoned
    /\ op.arg.name \in DOMAIN prePlugins
    /\ prePlugins[op.arg.name] # op.arg
    /\ disabled # <<>>

\* C2, as claimed: every name in the disabled list is a name that is in the
\* mapping now.
C2_DisabledAreRegistered ==
    \A i \in 1..Len(disabled) : disabled[i] \in DOMAIN plugins

\* C2, amended: every name in the disabled list is a name that is in the
\* mapping now or was in it earlier (unregister leaves the disabled list alone).
C2_DisabledWereRegistered ==
    \A i \in 1..Len(disabled) : disabled[i] \in everRegistered

\* C2's case: a disabled name that has been unregistered.
C2_Witness ==
    \E i \in 1..Len(disabled) :
        disabled[i] \notin DOMAIN plugins /\ disabled[i] \in everRegistered

\* The operations that take the plugins lock.
TakesPluginsLock ==
    {"register", "unregister", "get", "list_plugins", "count", "contains",
     "disable_plugin", "list_enabled_plugins", "verify_version"}

\* C10: an operation that needs the plugins lock and finds it poisoned returns
\* RegistryLocked, and nothing else.
C10_PoisonSurfacesAsRegistryLocked ==
    (op.name \in TakesPluginsLock /\ "plugins" \in poisoned) => ret = RegistryLocked

\* C11: disable_plugin(name), with the plugins lock not poisoned: when name is
\* not in the mapping it returns PluginNotFound(name) and leaves the disabled
\* list as it was; when name is registered it returns Ok, is_disabled(name) is
\* true afterwards, and the disabled status of every other name is as it was.
\* The mapping is unchanged in both cases.
C11_DisableContract ==
    (op.name = "disable_plugin" /\ "plugins" \notin poisoned) =>
        /\ plugins = prePlugins
        /\ IF op.arg \notin DOMAIN prePlugins
           THEN /\ ret = PluginNotFound(op.arg)
                /\ disabled = preDisabled
           ELSE /\ ret = Ok
                /\ is_disabled(disabled, poisoned, op.arg)
                /\ \A n \in Names \ {op.arg} :
                      is_disabled(disabled, poisoned, n)
                          = is_disabled(preDisabled, poisoned, n)

\* C11's case: a registered name is disabled while another name is disabled
\* already.
C11_Witness ==
    /\ op.name = "disable_plugin"
    /\ "plugins" \notin poisoned
    /\ op.arg \in DOMAIN prePlugins
    /\ ~InSeq(preDisabled, op.arg)
    /\ \E n \in Names \ {op.arg} : InSeq(preDisabled, n)

\* C12: enable_plugin(name) returns Ok whether name is registered or not and
\* disabled or not; afterwards is_disabled(name) is false; a second
\* enable_plugin(name) returns Ok again and leaves the state as the first left
\* it; the mapping and the disabled status of every other name are unchanged.
C12_EnableContract ==
    op.name = "enable_plugin" =>
        /\ ret = Ok
        /\ ~is_disabled(disabled, poisoned, op.arg)
        /\ plugins = prePlugins
        /\ \A n \in Names \ {op.arg} :
              is_disabled(disabled, poisoned, n) = is_disabled(preDisabled, poisoned, n)
        /\ enable_locked(disabled, op.arg) = [disabled |-> disabled, ret |-> Ok]

\* C12's case: a name that is disabled and no longer registered is enabled,
\* while another name is disabled.
C12_Witness ==
    /\ op.name = "enable_plugin"
    /\ InSeq(preDisabled, op.arg)
    /\ op.arg \notin DOMAIN plugins
    /\ \E n \in Names \ {op.arg} : InSeq(preDisabled, n)

\* C13: called by a single caller, with no lock poisoned, list_enabled_plugins
\* returns the names that are in the mapping and not in the disabled list, each
\* of them once.
C13_ListEnabledSequential ==
    (op.name = "list_enabled_plugins" /\ poisoned = {}) =>
        /\ ret.tag = "Names"
        /\ Range(ret.names) = {n \in DOMAIN plugins : ~InSeq(disabled, n)}
        /\ \A i, j \in 1..Len(ret.names) : ret.names[i] = ret.names[j] => i = j

\* C13's case: the list is asked for while one registered name is disabled
\* and another is enabled.
C13_Witness ==
    /\ op.name = "list_enabled_plugins"
    /\ poisoned = {}
    /\ \E n \in DOMAIN plugins : InSeq(disabled, n)
    /\ \E n \in DOMAIN plugins : ~InSeq(disabled, n)

\* C14: unregister(name), with the plugins lock not poisoned: when name is not
\* in the mapping it returns PluginNotFound(name) and changes nothing;
\* otherwise it returns Ok, contains(name) is false afterwards, count() has
\* dropped by exactly one and every other name holds the instance it held.
C14_UnregisterContract ==
    (op.name = "unregister" /\ "plugins" \notin poisoned) =>
        IF op.arg \notin DOMAIN prePlugins
        THEN /\ ret = PluginNotFound(op.arg)
             /\ plugins = prePlugins
             /\ disabled = preDisabled
        ELSE /\ ret = Ok
             /\ ~contains(plugins, poisoned, op.arg)
             /\ count(plugins, poisoned) = count(prePlugins, poisoned) - 1
             /\ \A n \in DOMAIN prePlugins \ {op.arg} :
                   contains(plugins, poisoned, n) /\ plugins[n] = prePlugins[n]

\* C14's case: one of two registered names is unregistered.
C14_Witness ==
    /\ op.name = "unregister"
    /\ "plugins" \notin poisoned
    /\ op.arg \in DOMAIN prePlugins
    /\ DOMAIN prePlugins \ {op.arg} # {}

\* C18: get(name), with the plugins lock not poisoned, returns the instance
\* that the last successful register stored under name when name is in the
\* mapping, and PluginNotFound(name) otherwise, whether name is disabled or
\* not; it leaves the mapping and the disabled list as they were.
C18_GetContract ==
    (op.name = "get" /\ "plugins" \notin poisoned) =>
        /\ plugins = prePlugins
        /\ disabled = preDisabled
        /\ IF op.arg \in DOMAIN plugins
           THEN ret = [tag |-> "Plugin", plugin |-> lastRegistered[op.arg]]
           ELSE ret = PluginNotFound(op.arg)

\* C18's case: get of a disabled name whose instance is not the first of the
\* pool.
C18_Witness ==
    /\ op.name = "get"
    /\ "plugins" \notin poisoned
    /\ op.arg \in DOMAIN plugins
    /\ InSeq(disabled, op.arg)
    /\ ret.plugin.id # 1

\* The pieces of a text between its dots.
RECURSIVE SplitDots(_, _)
SplitDots(s, piece) ==
    IF s = <<>> THEN <<piece>>
    ELSE IF Head(s) = "." THEN <<piece>> \o SplitDots(Tail(s), <<>>)
    ELSE SplitDots(Tail(s), Append(piece, Head(s)))

\* The number that a text of decimal digits denotes.
RECURSIVE DecimalValue(_)
DecimalValue(ds) ==
    IF ds = <<>> THEN 0
    ELSE 10 * DecimalValue(SubSeq(ds, 1, Len(ds) - 1))
         + (CHOOSE d \in 0..9 : DigitChars[d + 1] = ds[Len(ds)])

\* text reads major.minor.patch: three runs of digits between two dots, which
\* denote the three numbers of v.
ReadsAsVersion(text, v) ==
    LET parts == SplitDots(text, <<>>) IN
    /\ Len(parts) = 3
    /\ \A i \in 1..3 :
          /\ parts[i] # <<>>
          /\ \A j \in 1..Len(parts[i]) : parts[i][j] \in Range(DigitChars)
    /\ DecimalValue(parts[1]) = v.major
    /\ DecimalValue(parts[2]) = v.minor
    /\ DecimalValue(parts[3]) = v.patch

\* C15: verify_version(name, required), with the plugins lock not poisoned,
\* returns PluginNotFound(name) when name is not registered,
\* IncompatibleVersion with the name and with the required version written as
\* major.minor.patch when the registered version is not compatible with the
\* required one, and Ok otherwise, whether the plugin is disabled or not; the
\* mapping and the disabled list stay as they were.
C15_VerifyVersionContract ==
    (op.name = "verify_version" /\ "plugins" \notin poisoned) =>
        /\ plugins = prePlugins
        /\ disabled = preDisabled
        /\ IF op.arg.name \notin DOMAIN plugins
           THEN ret = PluginNotFound(op.arg.name)
           ELSE LET v == plugins[op.arg.name].version
                    r == op.arg.required
                IN  IF /\ v.major = r.major
                       /\ \/ v.minor > r.minor
                          \/ v.minor = r.minor /\ v.patch >= r.patch
                    THEN ret = Ok
                    ELSE /\ ret.tag = "Err"
                         /\ ret.err = "IncompatibleVersion"
                         /\ ret.plugin = op.arg.name
                         /\ ReadsAsVersion(ret.required, r)

\* C15's case: a disabled plugin is verified against a version of the same
\* major number that it does not reach, one with a number of two digits.
C15_Witness ==
    /\ op.name = "verify_version"
    /\ "plugins" \notin poisoned
    /\ op.arg.name \in DOMAIN plugins
    /\ InSeq(disabled, op.arg.name)
    /\ op.arg.required.major = plugins[op.arg.name].version.major
    /\ op.arg.required.minor >= 10
    /\ ret.tag = "Err"

(***************************************************************************)
(* The registry and several concurrent callers (SpecConc).                 *)
(***************************************************************************)
\* C3: what list_enabled_plugins returns is the set of enabled names
\* (registered and not disabled) of one registry state that existed between
\* the call's invocation and its return.
C3_ListEnabledIsOneState ==
    \A t \in Threads :
        (tpc[t] = "idle" /\ tcall[t].name = "list_enabled_plugins") =>
            Range(tret[t].names) \in tseen[t]

\* C26: no step adds a name to the disabled list while the name is not in the
\* mapping, and no disable_plugin returns Ok from its insertion step while its
\* name is not in the mapping.
C26_DisableAtomicWithUnregister ==
    [][/\ \A n \in Names :
             (~InSeq(disabled, n) /\ InSeq(disabled', n)) => n \in DOMAIN plugins
       /\ \A t \in Threads :
             (tpc[t] = "disable_body" /\ tpc'[t] = "idle" /\ tret'[t] = Ok)
                 => tcall[t].arg \in DOMAIN plugins]_vars

(***************************************************************************)
(* The tailer (SpecTail).                                                  *)
(***************************************************************************)
LastBatch == batches[Len(batches)]

\* C4, for a file that is only appended to: once a notification is processed,
\* the batch is the file's bytes from the stored offset to the end of file the
\* read reached, and the stored offset is that end of file, which is the old
\* offset plus the length of the batch.
C4_OffsetIsEndOfBatch ==
    (truncates = 0 /\ batches # <<>> /\ wpc \in {"recv", "open"}) =>
        /\ LastBatch.bytes = SubSeq(file, LastBatch.from + 1, LastBatch.eof)
        /\ pos = LastBatch.eof
        /\ pos = LastBatch.from + Len(LastBatch.bytes)

\* C5: a notification processed while the file is shorter than the stored
\* offset emits the entire content of the file as its batch.
C5_ShrunkFileIsReadFromStart ==
    \A i \in 1..Len(batches) :
        batches[i].eof < batches[i].from => Len(batches[i].bytes) = batches[i].eof

\* C6: after the tailer has started, two appends, X then Y, and nothing else
\* happening to the file or the watch, give exactly two batches once every
\* notification is processed: X, then Y.
C6_TwoAppendsTwoBatches ==
    (/\ startLen >= 0
     /\ writes = 2
     /\ Len(file) = startLen + 2
     /\ Faults = 0
     /\ wpc = "recv"
     /\ chan = <<>>) =>
        /\ Len(batches) = 2
        /\ batches[1].bytes = <<NewContent[1]>>
        /\ batches[2].bytes = <<NewContent[2]>>

\* C7: while the file is only appended to, the offset the tailer starts with
\* is the length of the file it read at the start, and no batch holds a byte
\* that the file held then.
C7_OldContentNeverEmitted ==
    (startLen >= 0 /\ truncates = 0) =>
        /\ (batches = <<>> /\ wpc \in {"recv", "open", "metadata"}) => pos = startLen
        /\ \A i \in 1..Len(batches) :
              /\ batches[i].from >= startLen
              /\ \A j \in 1..Len(batches[i].bytes) :
                    batches[i].bytes[j] \notin {file[k] : k \in 1..startLen}

\* C7's case: the tailer started on a file that held content, and has emitted
\* a batch of appended bytes.
C7_Witness ==
    /\ startLen > 0
    /\ truncates = 0
    /\ batches # <<>>
    /\ LastBatch.bytes # <<>>

\* C8: the tailer started on a file that holds lines, and waiting with nothing
\* having changed since, has dispatched those lines for printing.
C8_ExistingLinesArePrinted ==
    (/\ wpc = "recv"
     /\ chan = <<>>
     /\ writes = 0
     /\ Faults = 0
     /\ DispatchedLines(file) # <<>>) =>
        AllDispatched(batches) # <<>>

\* C9: an error notification of the watch subsystem ends the watch loop: the
\* tailer does not go on to handle it as a change, and no batch comes of it.
C9_WatchErrorEndsTheLoop ==
    /\ cur = "error" => wpc \in {"exited", "panicked"}
    /\ \A i \in 1..Len(batches) : batches[i].cause # "error"

\* s is a prefix of t.
IsPrefix(s, t) == Len(s) <= Len(t) /\ SubSeq(t, 1, Len(s)) = s

\* C27: while the file is only appended to, the batches emitted so far, one
\* after the other, are a prefix of the bytes appended since the tailer read
\* the file at its start: no appended byte is emitted twice and none is skipped.
C27_BatchesArePrefixOfAppended ==
    (startLen >= 0 /\ truncates = 0) =>
        IsPrefix(AllBytes(batches), SubSeq(file, startLen + 1, Len(file)))

(***************************************************************************)
(* Pairs of versions (SpecVersion).                                        *)
(***************************************************************************)
\* C16: v.is_compatible_with(r) is true exactly when v.major = r.major and
\* either v.minor > r.minor, or v.minor = r.minor and v.patch >= r.patch.
C16_CompatibilityRule ==
    verRet # NoValue =>
        (verRet.selfOther <=>
            /\ verSelf.major = verOther.major
            /\ \/ verSelf.minor > verOther.minor
               \/ verSelf.minor = verOther.minor /\ verSelf.patch >= verOther.patch)

\* C16's case: a version with a higher minor and a lower patch number than the
\* one it is compared with is found compatible.
C16_Witness ==
    /\ verRet # NoValue
    /\ verSelf.minor > verOther.minor
    /\ verSelf.patch < verOther.patch
    /\ verRet.selfOther

\* C17: every version is compatible with itself; of two versions with the same
\* major number, one with a higher minor number, or with the same minor and a
\* higher patch number, is compatible with the other and the other is not
\* compatible with it; two versions with different major numbers are
\* compatible in neither direction.
C17_ReflexiveNotSymmetric ==
    verRet # NoValue =>
        /\ verRet.selfSelf
        /\ (/\ verSelf.major = verOther.major
            /\ \/ verSelf.minor > verOther.minor
               \/ verSelf.minor = verOther.minor /\ verSelf.patch > verOther.patch)
              => (verRet.selfOther /\ ~verRet.otherSelf)
        /\ verSelf.major # verOther.major
              => (~verRet.selfOther /\ ~verRet.otherSelf)

\* C17's case: a pair of versions that is compatible in one direction only.
C17_Witness ==
    /\ verRet # NoValue
    /\ verSelf.major = verOther.major
    /\ verRet.selfOther
    /\ ~verRet.otherSelf

(***************************************************************************)
(* main() and the format dispatch (SpecMain).                              *)
(***************************************************************************)
\* The lines of the texts that are not empty, in order.
RECURSIVE NonEmptyLines(_)
NonEmptyLines(texts) ==
    IF texts = <<>> THEN <<>>
    ELSE SelectSeq(Lines(Head(texts)), LAMBDA l : Len(l) > 0)
         \o NonEmptyLines(Tail(texts))

\* C19: with the selector "clf" every non-empty line of what is printed goes
\* to the structured parser and none to the highlighter; with any other
\* selector, or none, every non-empty line goes to the highlighter and none to
\* the structured parser; this holds for every line of the run, and an empty
\* line goes to neither.
C19_FormatDispatch ==
    mpc # "args" =>
        IF argMode = Some("clf")
        THEN parsed = NonEmptyLines(printed) /\ highlighted = <<>>
        ELSE highlighted = NonEmptyLines(printed) /\ parsed = <<>>

\* C19's case: with a selector that differs from "clf" in case only, an empty
\* line and a line that is not empty have been printed.
C19_Witness ==
    /\ argMode = Some("CLF")
    /\ \E i \in 1..Len(printed) : Lines(printed[i]) = <<>>
    /\ highlighted # <<>>
    /\ Len(printed) > 1

\* C20: when no path is given, every line of standard input is passed to the
\* dispatch once, in the order of arrival, and when the process has ended it
\* has read standard input to its end and its status is 0.
C20_StdinReadToTheEnd ==
    ~hasPath =>
        /\ Len(printed) + Len(stdin) <= Len(input)
        /\ \A i \in 1..Len(printed) : printed[i] = input[i].line
        /\ mpc \notin {"args", "stdin"} =>
              /\ exitStatus = 0
              /\ stdin = <<>>
              /\ Len(printed) = Len(input)

(***************************************************************************)
(* The default methods of the Plugin trait (SpecDetect).                   *)
(***************************************************************************)
\* How many of the sample lines parse_line answers with Parsed.
NumParsed == Cardinality({i \in 1..Len(sampleLines) : parse_line(sampleLines[i]).tag = "Parsed"})

\* C23: detect_format returns 0.0 for no samples, and otherwise the f32
\* nearest to the number of samples that parse_line answers with Parsed
\* divided by the number of samples; the value lies between 0 and 1, is 1.0
\* exactly when every sample is Parsed, 0.0 exactly when none is, and 0.5 when
\* one of two samples is.
C23_DetectFormatIsFraction ==
    confidence # NoValue =>
        LET v == confidence.value
            n == Len(sampleLines)
        IN  /\ n = 0 => v = F32Zero
            /\ n > 0 =>
                  \* within half a unit of the last place of NumParsed / n
                  /\ 2 * (v.mant * n - NumParsed * 2^v.exp) <= n
                  /\ 2 * (NumParsed * 2^v.exp - v.mant * n) <= n
                  \* 0 <= v <= 1
                  /\ v.mant >= 0
                  /\ v.mant <= 2^v.exp
                  /\ (v.mant = 2^v.exp) <=> (NumParsed = n)
                  /\ (v = F32Zero) <=> (NumParsed = 0)
                  /\ (n = 2 /\ NumParsed = 1) => v = F32(2^23, 24)

\* C23's case: detect_format has been called on three samples of which one is
\* Parsed, one is NoMatch and one is an Error.
C23_Witness ==
    /\ confidence # NoValue
    /\ Len(sampleLines) = 3
    /\ {parse_line(sampleLines[i]).tag : i \in 1..3} = {"Parsed", "NoMatch", "Error"}

(***************************************************************************)
(* The disabled list across unregister and register (Spec).                *)
(***************************************************************************)
\* C32: register and unregister leave the disabled list as it is, and so
\* does every call but enable_plugin for the names that are in it: a name
\* that was disabled stays disabled through its unregistration and its
\* registration anew. is_disabled reports every name of the list, and
\* list_enabled_plugins returns none of them.
C32_DisabledSurvivesReRegistration ==
    /\ op.name \in {"register", "register_panics", "unregister"}
          => disabled = preDisabled
    /\ op.name # "enable_plugin"
          => \A n \in Range(preDisabled) : InSeq(disabled, n)
    /\ (op.name = "is_disabled" /\ InSeq(disabled, op.arg)) => ret.b
    /\ (op.name = "list_enabled_plugins" /\ ret.tag = "Names")
          => \A n \in Range(disabled) : ~InSeq(ret.names, n)

\* C32's case: a register call has just succeeded for a name that is in
\* the disabled list. Only a registered name can be disabled, so the name
\* was disabled, then unregistered, and is now registered again.
C32_Witness ==
    /\ op.name = "register"
    /\ ret = Ok
    /\ InSeq(disabled, op.arg.name)
    /\ op.arg.name \in DOMAIN plugins
    /\ is_disabled(disabled, poisoned, op.arg.name)

(***************************************************************************)
(* Concurrent callers, one call each (SpecOnce).                           *)
(***************************************************************************)
\* The threads whose call is a register of the name n.
Registering(n) ==
    {t \in Threads : tcall[t].name = "register" /\ tcall[t].arg.name = n}

\* Every thread has made its call, and none of the calls unregisters n.
OnlyRegistered(n) ==
    \A t \in Threads :
        /\ tcall[t] # NoCall
        /\ ~(tcall[t].name = "unregister" /\ tcall[t].arg = n)

\* C33: when the calls made concurrently on a name that the registry does
\* not hold are registers, at most one of them returns Ok at any time, and
\* once they have all returned exactly one has returned Ok, every other
\* has returned PluginAlreadyRegistered, and the mapping holds the
\* instance of the one that returned Ok under that name.
C33_OneRegisterWins ==
    \A n \in Names :
        LET oks == {t \in Registering(n) : tret[t] = Ok} IN
        OnlyRegistered(n) =>
            /\ Cardinality(oks) <= 1
            /\ (Registering(n) # {} /\ \A t \in Registering(n) : tpc[t] = "idle")
               => /\ Cardinality(oks) = 1
                  /\ \A t \in Registering(n) \ oks :
                        tret[t] = PluginAlreadyRegistered(n)
                  /\ n \in DOMAIN plugins
                  /\ \A t \in oks : plugins[n] = tcall[t].arg

\* C33's case: two threads have registered different instances under one
\* name; the second thread's call returned Ok and the first one's
\* PluginAlreadyRegistered.
C33_Witness ==
    \E n \in Names :
        /\ Registering(n) = {1, 2}
        /\ tcall[1].arg # tcall[2].arg
        /\ tpc[1] = "idle" /\ tpc[2] = "idle"
        /\ tret[2] = Ok
        /\ tret[1] = PluginAlreadyRegistered(n)
        /\ plugins[n] = tcall[2].arg

\* Whether thread t holds the lock, as a reader or as the writer.
Holds(lock, t) == t \in lock.readers \/ lock.writer = t

\* No thread holds the plugins lock and the disabled lock at once.
NeverBothLocks ==
    \A t \in Threads : ~(Holds(pluginsLock, t) /\ Holds(disabledLock, t))

\* A writer holds its lock alone.
WriterAlone ==
    /\ pluginsLock.writer # 0 => pluginsLock.readers = {}
    /\ disabledLock.writer # 0 => disabledLock.readers = {}

\* C34: no call holds the plugins lock and the disabled lock at the same
\* time, a writer holds its lock alone while readers may share it, and
\* under a fair scheduler every call of a finite set of concurrent calls
\* returns: no thread waits for ever.
C34_NoDeadlock ==
    /\ [](NeverBothLocks /\ WriterAlone)
    /\ \A t \in Threads : (tpc[t] # "idle") ~> (tpc[t] = "idle")

\* C34's case: two threads hold the plugins lock as readers at once while
\* no writer holds it.
C34_Witness ==
    /\ Cardinality(pluginsLock.readers) >= 2
    /\ pluginsLock.writer = 0
    /\ \E t \in pluginsLock.readers : tcall[t].name = "disable_plugin"

(***************************************************************************)
(* Plugin discovery (SpecDiscovery).                                       *)
(***************************************************************************)
\* A search path that the scan passes over: it does not exist, it is not a
\* directory, or its listing is denied for lack of permission.
IsSkipped(st) ==
    \/ st.kind \in {"missing", "file"}
    \/ st.kind = "dir" /\ st.read_dir = "PermissionDenied"

\* A search path whose listing fails otherwise: of the directory, or of one
\* of its entries.
ListingFails(st) ==
    /\ st.kind = "dir"
    /\ \/ st.read_dir = "Other"
       \/ st.read_dir = "Ok" /\ \E i \in 1..Len(st.entries) : st.entries[i].tag = "Err"

\* The entry is a file whose name ends in a plugin extension, in any case.
IsCandidate(e) ==
    /\ e.tag = "Entry"
    /\ e.is_file
    /\ Len(e.name) >= 3
    /\ e.name[Len(e.name) - 1] = "."
    /\ e.name[Len(e.name)] \in {"so", "SO", "dylib", "DYLIB", "dll", "DLL"}

\* C24: discover_plugins returns an error, and no list, when the listing of a
\* search path fails otherwise than by a denial of the directory's listing;
\* when none does, it returns a list in which a path that does not exist, is
\* not a directory or is denied has no candidate, and the other paths have
\* all of theirs.
C24_DiscoverSkipsAndAborts ==
    discOp.name = "discover_plugins" =>
        IF \E q \in Range(search_paths) : ListingFails(fsys[q])
        THEN /\ discRet.tag = "Err"
             /\ discRet.err = "IoError"
             /\ "files" \notin DOMAIN discRet
        ELSE /\ discRet.tag = "Ok"
             /\ \A i \in 1..Len(discRet.files) : ~IsSkipped(fsys[discRet.files[i].dir])
             /\ \A q \in Range(search_paths) :
                   ~IsSkipped(fsys[q]) =>
                       \A j \in 1..Len(fsys[q].entries) :
                           IsCandidate(fsys[q].entries[j]) <=>
                               \E i \in 1..Len(discRet.files) :
                                   discRet.files[i] = EntryPath(q, fsys[q].entries[j].name)

\* C24's case: the first search path is a directory whose listing is denied,
\* and the second one has given a candidate.
C24_Witness ==
    /\ discOp.name = "discover_plugins"
    /\ fsys[SearchPaths[1]].kind = "dir"
    /\ fsys[SearchPaths[1]].read_dir = "PermissionDenied"
    /\ discRet.tag = "Ok"
    /\ discRet.files # <<>>

\* The candidate's file name without its dot and extension is the name, or
\* "lib" followed by the name.
HasStem(cand, name) ==
    LET stem == SubSeq(cand.name, 1, Len(cand.name) - 2) IN
    stem = name \/ (Len(stem) = Len(name) + 1 /\ stem[1] = "lib" /\ Tail(stem) = name)

\* C25: find_plugin(name) passes on the error of the discovery; otherwise it
\* returns the first of the candidates, in their order, whose stem is name or
\* "lib" followed by name, whichever of the two comes first, and none when no
\* candidate has such a stem.
C25_FindFirstByStem ==
    discOp.name = "find_plugin" =>
        LET all == discover_plugins(fsys, search_paths) IN
        IF all.tag = "Err" THEN discRet = all
        ELSE LET hits == {i \in 1..Len(all.files) : HasStem(all.files[i], discOp.arg)} IN
             /\ discRet.tag = "Ok"
             /\ IF hits = {} THEN discRet.found = NoValue
                ELSE \E i \in hits :
                        /\ \A j \in hits : i <= j
                        /\ discRet.found = Some(all.files[i])

\* C25's case: the name is looked for where a lib-prefixed file comes before
\* a file of the exact name, and the lib-prefixed file is returned.
C25_Witness ==
    /\ discOp.name = "find_plugin"
    /\ discRet.tag = "Ok"
    /\ discRet.found = Some(EntryPath(SearchPaths[1], <<"lib", "apache", ".", "dylib">>))
    /\ \E q \in Range(SearchPaths) :
          /\ fsys[q].kind = "dir"
          /\ fsys[q].read_dir = "Ok"
          /\ \E j \in 1..Len(fsys[q].entries) :
                fsys[q].entries[j] =
                    [tag |-> "Entry", name |-> <<"apache", ".", "so">>, is_file |-> TRUE]

\* The candidates of a directory that is listed, in the order of the
\* listing.
CandidatesOf(q) ==
    LET found == SelectSeq(fsys[q].entries, IsCandidate) IN
    [i \in 1..Len(found) |-> EntryPath(q, found[i].name)]

\* The candidates of the search paths from the i-th on, path after path.
RECURSIVE CandidatesFrom(_)
CandidatesFrom(i) ==
    IF i > Len(search_paths) THEN <<>>
    ELSE (IF IsSkipped(fsys[search_paths[i]]) THEN <<>>
          ELSE CandidatesOf(search_paths[i]))
         \o CandidatesFrom(i + 1)

\* C31: where no listing fails, discover_plugins returns exactly the
\* regular files whose extension is so, dylib or dll in any case, path
\* after path in the order of the search paths and so twice for a path
\* listed twice; no directory, no file without an extension and no file
\* with another extension is among them; and the call leaves the list of
\* search paths as it was.
C31_DiscoverReturnsCandidates ==
    [][discOp'.name = "discover_plugins" =>
          /\ search_paths' = search_paths
          /\ (\A q \in Range(search_paths) : ~ListingFails(fsys[q]))
             => discRet' = [tag |-> "Ok", files |-> CandidatesFrom(1)]]_vars

\* C31's case: the first directory is listed twice and holds a file with
\* the extension SO next to a directory named apache.dll; the file is
\* returned twice and nothing else.
C31_Witness ==
    /\ discOp.name = "discover_plugins"
    /\ search_paths = <<SearchPaths[1], SearchPaths[1]>>
    /\ fsys[SearchPaths[1]].kind = "dir"
    /\ fsys[SearchPaths[1]].read_dir = "Ok"
    /\ fsys[SearchPaths[1]].entries =
          << [tag |-> "Entry", name |-> <<"syslog", ".", "SO">>, is_file |-> TRUE],
             [tag |-> "Entry", name |-> <<"apache", ".", "dll">>, is_file |-> FALSE] >>
    /\ discRet = [tag |-> "Ok",
                  files |-> << EntryPath(SearchPaths[1], <<"syslog", ".", "SO">>),
                               EntryPath(SearchPaths[1], <<"syslog", ".", "SO">>) >>]

(***************************************************************************)
(* Claims about the token highlighter.                                     *)
(***************************************************************************)
\* The words of the raw line, before the character pass.
RawTokens == split_whitespace(hlLine, <<>>)

\* Whether a word holds a quote or a square bracket.
HasQuoteOrBracket(word) == \E k \in 1..Len(word) : word[k] \in {"\"", "[", "]"}

\* Whether a word holds a dotted quad and GET or POST.
HasQuadAndVerb(word) == ip_addr_is_match(word) /\ http_verb_is_match(word)

\* The one treatment a word gets: the first rule that matches it, in the
\* order all digits, dotted quad, verb, none.
TreatedOnce(done) ==
    LET word == done.word IN
    IF number_is_match(word)
    THEN done.rule = "number" /\ done.text = Styled(word, Blue, colorize)
    ELSE IF ip_addr_is_match(word)
    THEN done.rule = "ip_addr" /\ done.text = Styled(word, RedOnWhite, colorize)
    ELSE IF http_verb_is_match(word)
    THEN /\ done.rule = "http_verb"
         /\ \E at \in 1..Len(word) :
              /\ VerbAt(word, at) # 0
              /\ done.text =
                    SubSeq(word, 1, at - 1)
                    \o Styled(SubSeq(word, at, at + VerbAt(word, at) - 1),
                              BrightGreen, colorize)
                    \o SubSeq(word, at + VerbAt(word, at), Len(word))
    ELSE done.rule = "none" /\ done.text = word

\* C28: the word pass gives every token exactly one treatment, the one of
\* the first rule that matches it in the order all digits, dotted quad,
\* GET or POST, unstyled; a token with a dotted quad and a verb is styled
\* as a dotted quad only.
C28_FirstMatchingRuleOnly ==
    \A i \in 1..Len(hlWords) : TreatedOnce(hlWords[i])

\* A token holding a dotted quad and GET was styled, with colors on.
C28_Witness ==
    /\ hlOut # NoValue
    /\ colorize
    /\ \E i \in 1..Len(hlWords) :
         /\ HasQuadAndVerb(hlWords[i].word)
         /\ hlWords[i].rule = "ip_addr"

\* Whether s is a dotted quad, from its first to its last character.
IsDottedQuad(s) == s # <<>> /\ MatchQuad(s, 1, 4) = Len(s)

\* C29: in a token that is not all digits and holds a dotted quad among
\* other characters, only the dotted quad carries the IP style: the
\* rendered token is the characters before it, the styled quad, and the
\* characters after it.
C29_OnlyTheQuadIsStyled ==
    \A i \in 1..Len(hlWords) :
        LET word == hlWords[i].word IN
        (hlWords[i].rule = "ip_addr" /\ ~IsDottedQuad(word))
        => \E a \in 1..Len(word) : \E b \in a..Len(word) :
             /\ IsDottedQuad(SubSeq(word, a, b))
             /\ hlWords[i].text =
                   SubSeq(word, 1, a - 1)
                   \o Styled(SubSeq(word, a, b), RedOnWhite, colorize)
                   \o SubSeq(word, b + 1, Len(word))

\* Whether position i of s is inside a style marker: a marker runs from
\* the escape character to the next m.
InMarker(s, i) ==
    \E e \in 1..i : s[e] = "ESC" /\ \A j \in e..(i - 1) : s[j] # "m"

\* The characters of s outside style markers, in order.
StripMarkers(s) ==
    LET plain == SelectSeq([i \in 1..Len(s) |-> i], LAMBDA i : ~InMarker(s, i))
    IN  [k \in 1..Len(plain) |-> s[plain[k]]]

\* The words joined by single spaces.
RECURSIVE JoinSpaces(_)
JoinSpaces(words) ==
    IF words = <<>> THEN <<>>
    ELSE IF Len(words) = 1 THEN Head(words)
    ELSE Head(words) \o <<" ">> \o JoinSpaces(Tail(words))

\* C22: the rendered line without its style markers is the line's
\* whitespace-delimited tokens, character for character and in order,
\* joined by single spaces, with no space at either end.
C22_StrippedOutputIsTheTokens ==
    hlOut # NoValue
    => StripMarkers(hlOut.value) = JoinSpaces(RawTokens)

\* A line with a space at an end, several tokens and a styled character
\* was rendered with colors on.
C22_Witness ==
    /\ hlOut # NoValue
    /\ colorize
    /\ Len(RawTokens) >= 2
    /\ IsWhitespace(hlLine[1]) \/ IsWhitespace(hlLine[Len(hlLine)])
    /\ \E i \in 1..Len(RawTokens) : HasQuoteOrBracket(RawTokens[i])
    /\ hlOut.value # JoinSpaces(RawTokens)

\* Whether the rules class the token of a line the same way before and
\* after the character pass.
SameClassification(line, colors, i) ==
    LET raw == split_whitespace(line, <<>>)
        passed == split_whitespace(highlight_chars(line, colors), <<>>)
    IN  highlight_word(passed[i], colors).rule
        = highlight_word(raw[i], colors).rule

\* C30, as the code has it: the character pass changes no token's
\* classification; the rule the word pass applied to the character pass's
\* output is the rule the raw token gets.
C30_ClassificationUnchanged ==
    hlOut # NoValue
    => /\ Len(hlWords) = Len(RawTokens)
       /\ \A i \in 1..Len(hlWords) :
            hlWords[i].rule = highlight_word(RawTokens[i], colorize).rule

\* A token with a bracket or a quote around a dotted quad went through
\* both passes with colors on.
C30_Witness ==
    /\ hlOut # NoValue
    /\ colorize
    /\ \E i \in 1..Len(hlWords) :
         /\ HasQuoteOrBracket(RawTokens[i])
         /\ hlWords[i].word # RawTokens[i]
         /\ hlWords[i].rule = "ip_addr"

\* C30, as stated: among the lines there is a token with a quote or a
\* square bracket that the rules class differently on the character
\* pass's output than on the raw token. With colors off the character
\* pass writes the line as it is, so the statement is one about colors on.
C30_ClassificationDiffers ==
    colorize
    => \E line \in HighlightedLines :
         \E i \in 1..Len(split_whitespace(line, <<>>)) :
            /\ HasQuoteOrBracket(split_whitespace(line, <<>>)[i])
            /\ ~SameClassification(line, colorize, i)

(***************************************************************************)
(* Claims about the structured parser.                                     *)
(***************************************************************************)
\* The names of the nine fields of a record.
LogFields ==
    { "client", "user_identifier", "userid", "datetime", "method", "request",
      "protocol", "status", "size" }

\* Whether sub is found in line, character for character.
IsSubstring(sub, line) ==
    \E i \in 1..(Len(line) - Len(sub) + 1) :
        SubSeq(line, i, i + Len(sub) - 1) = sub

\* Whether s ends with a dotted quad.
EndsWithQuad(s) == \E i \in 1..Len(s) : IsDottedQuad(SubSeq(s, i, Len(s)))

\* The grammar, read on the words of a line whose words are one space
\* apart: somewhere a word ends with the client, two words follow, a
\* bracketed datetime of one or more words, the quoted triple as three
\* words, a status of three digits, and a size that starts with digits
\* or is a dash.
GrammarMatches(line) ==
    LET w == split_whitespace(line, <<>>)
        n == Len(w)
    IN  \E j \in 1..n : \E k \in (j + 3)..(n - 5) :
            /\ EndsWithQuad(w[j])
            /\ Head(w[j + 3]) = "["
            /\ w[k][Len(w[k])] = "]"
            /\ Head(w[k + 1]) = "\""
            /\ Len(w[k + 1]) >= 2
            /\ \A c \in 2..Len(w[k + 1]) : w[k + 1][c] \in UpperChars
            /\ Len(w[k + 3]) >= 2
            /\ w[k + 3][Len(w[k + 3])] = "\""
            /\ Len(w[k + 4]) = 3
            /\ number_is_match(w[k + 4])
            /\ IsDigit(Head(w[k + 5])) \/ w[k + 5] = <<"-">>

\* Whether the line holds the opening of a quoted triple: a quote and a
\* method in capitals.
HasQuotedMethod(line) ==
    \E i \in 1..(Len(line) - 1) : line[i] = "\"" /\ line[i + 1] \in UpperChars

\* A record whole: the nine fields, none empty, each of its shape, and
\* found in the line side by side as the grammar has them.
WholeRecord(field, line) ==
    /\ DOMAIN field = LogFields
    /\ \A f \in LogFields : field[f] # <<>>
    /\ IsDottedQuad(field.client)
    /\ Head(field.datetime) = "[" /\ field.datetime[Len(field.datetime)] = "]"
    /\ \A c \in 1..Len(field.method) : field.method[c] \in UpperChars
    /\ Len(field.status) = 3 /\ number_is_match(field.status)
    /\ number_is_match(field.size) \/ field.size = <<"-">>
    /\ IsSubstring(PrintLog(field, FALSE), line)

\* C21: a line in which the grammar does not match in full, the empty
\* line and a line without the quoted triple among them, gives no record
\* and no output, and print_clf goes on without an error; every record
\* made has all nine fields, and one line is printed for each.
C21_NoMatchNoRecord ==
    clfOut # NoValue
    => /\ clfOut.tag = "Some"
       /\ Len(clfOut.value) = Len(clfFields)
       /\ \A i \in 1..Len(clfFields) :
            /\ WholeRecord(clfFields[i], clfLine)
            /\ StripMarkers(clfOut.value[i]) = PrintLog(clfFields[i], FALSE)
       /\ (clfLine = <<>> \/ ~HasQuotedMethod(clfLine) \/ ~GrammarMatches(clfLine))
          => (clfFields = <<>> /\ clfOut.value = <<>>)

\* A line with a client, a datetime, a status and a size but no quoted
\* triple went through print_clf and nothing was printed.
C21_Witness ==
    /\ clfOut # NoValue
    /\ clfColors
    /\ ip_addr_is_match(clfLine)
    /\ IsSubstring(<<"]", " ", "2", "0", "0", " ", "5">>, clfLine)
    /\ ~HasQuotedMethod(clfLine)
    /\ clfOut.value = <<>>

==============================================================================
